---- MODULE Spec2Model ----
(***************************************************************************)
(* Trace-to-span projection of the Bedrock agent evaluation tooling.       *)
(*                                                                         *)
(*   TestRunner.run_test_suite      (src/runners/test_runner.py)           *)
(*     -> AgentOrchestrator.ask_agent_with_traces                          *)
(*                                  (src/orchestrators/agent_orchestrator) *)
(*        -> TraceProcessor.process_trace_event                            *)
(*                                  (src/processors/trace_processor.py)    *)
(*   dd_eval.main                   (src/dd_eval.py), the standalone batch *)
(*                                  driver, under EvalSpec.                *)
(*                                                                         *)
(* The observability backend is the stack of open span scopes; a `with`    *)
(* block is a push at entry and a pop at exit, on the normal and on the    *)
(* exceptional path.  The inputs (questions, stream items, the contents of *)
(* a trace event, whether a backend call raises) are drawn as the code     *)
(* reads them.                                                             *)
(***************************************************************************)
EXTENDS Integers, Sequences, FiniteSets, TLC

\* ------------------------------------------------------------------ bounds
NumQuestions == 2      \* questions in one batch
MaxEvents == 2         \* items one event source delivers before it ends

VARIABLES
  \* TestRunner.run_test_suite
  qi,                \* 1-based index of the question being processed
  rpc,               \* position in run_test_suite
  results,           \* self.results
  successful_calls,  \* the local counter of run_test_suite
  \* DatadogService, as main and run_evaluation drive it
  enables,           \* calls of LLMObs.enable
  flushes,           \* calls of LLMObs.flush
  flush_result,      \* whether LLMObs.flush raised and what flush_data_to_datadog returned
  \* AgentOrchestrator.ask_agent_with_traces
  apc,               \* position in ask_agent_with_traces
  stack,             \* open span scopes, innermost last
  output,            \* the answer buffer
  trace_count,       \* the trace-event counter
  pulled,            \* items pulled from the event source so far
  stream,            \* the items the event source has delivered, in order
  recording,         \* the delivered items are being recorded in stream
  annotated,         \* what the root agent span was annotated with
  exc,               \* an exception is propagating in ask_agent_with_traces
  retval,            \* the value ask_agent_with_traces returns
  \* TraceProcessor.process_trace_event
  tpc,               \* position in process_trace_event
  cur,               \* the stage content read last
  texc,              \* an exception is propagating in process_trace_event
  \* history of the current question / event
  nWf,               \* root workflow spans opened for this question
  nAg,               \* root agent spans opened for this question
  nOpened,           \* spans opened for this question
  nClosed,           \* spans closed for this question
  errMarked,         \* the error marker was attached to the workflow span
  invocations,       \* calls of invoke_agent for this question
  failedAt,          \* the step of ask_agent_with_traces that raised first
  fault,             \* why the current event was abandoned
  skipped,           \* the event holds a stage key that was never looked at
  prog,              \* how far the recorded per-record spans follow Scenario
  outcomes,          \* per finished question: how ask_agent_with_traces ended
  \* dd_eval.main
  epc,               \* position in dd_eval.main
  final_response_text, \* the text of the last FINISH observation, or None
  fileWrites,        \* how often the results file was written
  written,           \* the records of the results file
  \* aws_agents_traces.run_query
  qpc,               \* position in run_query
  trace_events,      \* how many traces process_agent_response_with_trace collected
  agent_failed,      \* the invocation or the stream of the current question raised
  \* one _process_* method of TraceProcessor on one fixture record
  xpc,               \* position in the method
  fixture,           \* the record: its kind, the damaged field, the damage
  extracted,         \* the values the method read, as <<name, value>> pairs
  passes,            \* what the earlier calls of the method on the record did
  \* one call of a helper function (format_response_for_display, grade, sim)
  call,              \* the function and its arguments
  result,            \* what the call returned
  \* time.time() and the session identifiers made from it
  now,               \* the clock in whole seconds since the run began
  sessions,          \* the session_id of every call of ask_agent_with_traces
  delay              \* delay_between_tests, in seconds

vars == <<qi, rpc, results, successful_calls, enables, flushes, flush_result,
          apc, stack, output, trace_count, pulled, stream, recording, annotated, exc, retval,
          tpc, cur, texc,
          nWf, nAg, nOpened, nClosed, errMarked, invocations, failedAt,
          fault, skipped, prog,
          outcomes, epc, final_response_text, fileWrites, written,
          qpc, trace_events, agent_failed, xpc, fixture, extracted, passes,
          call, result, now, sessions, delay>>

evalVars == <<epc, final_response_text, fileWrites, written>>
queryVars == <<qpc, trace_events, agent_failed>>
fieldVars == <<xpc, fixture, extracted, passes>>
utilVars == <<call, result>>
sessionVars == <<now, sessions, delay>>
backendVars == <<enables, flushes, flush_result>>
runnerVars == <<qi, rpc, results, successful_calls, outcomes>>
driverVars == <<runnerVars, evalVars, recording, queryVars, fieldVars, utilVars, sessionVars,
                backendVars>>
walkerVars == <<apc, output, trace_count, pulled, stream, annotated, exc, retval,
                nWf, nAg, errMarked, invocations, failedAt>>
eventVars == <<tpc, cur, texc, fault, skipped, prog>>
spanVars == <<stack, nOpened, nClosed>>

\* ------------------------------------------------------------ plain values
None == [some |-> FALSE, val |-> <<>>]
Some(v) == [some |-> TRUE, val |-> v]

\* str.strip() on a sequence of characters
RECURSIVE LStrip(_)
LStrip(s) == IF s # <<>> /\ Head(s) = " " THEN LStrip(Tail(s)) ELSE s

RECURSIVE RStrip(_)
RStrip(s) ==
  IF s # <<>> /\ s[Len(s)] = " " THEN RStrip(SubSeq(s, 1, Len(s) - 1)) ELSE s

Strip(s) == RStrip(LStrip(s))

\* `return output.strip() if output else None`
ReturnValue(out) == IF out # <<>> THEN Some(Strip(out)) ELSE None

\* `success = response is not None`
Success(response) == response # None

\* the decoded text of a content fragment
ChunkTexts == {<<"a">>, <<" ">>}

\* One item of the event source: the keys it holds ("chunk", "trace", "both"
\* or "other" for neither) and the decoded text of chunk["bytes"], empty when
\* the chunk holds no bytes key.
Item(key, text) == [key |-> key, text |-> text]

\* flush_data_to_datadog has not been called
NoFlush == [called |-> FALSE, raised |-> FALSE, returned |-> FALSE]

\* the root agent span has not been annotated
NotAnnotated == [done |-> FALSE, content |-> <<>>, total_trace_events |-> 0]

\* ------------------------------------------------------------------- spans
NoSpan == [id |-> 0, kind |-> "none", cat |-> "none", parent |-> "none",
           calls |-> 0, annotated |-> FALSE, lastOp |-> "none"]

Top(stk) == IF stk = <<>> THEN NoSpan ELSE stk[Len(stk)]

\* entering `with llm_obs.<cat>(name=..., session_id=...)`
Push(stk, id, kind, cat) ==
  Append(stk, [id |-> id, kind |-> kind, cat |-> cat, parent |-> Top(stk).kind,
               calls |-> 0, annotated |-> FALSE, lastOp |-> "opened"])

\* leaving a `with` block: the innermost scope is released, its parent resumes
Pop(stk) ==
  LET rest == SubSeq(stk, 1, Len(stk) - 1)
  IN  IF rest = <<>> THEN rest
      ELSE [rest EXCEPT ![Len(rest)].lastOp = "child_closed"]

\* llm_obs.annotate(...): acts on the innermost open span; ok is FALSE when it raises
Annotate(stk, ok) ==
  [stk EXCEPT ![Len(stk)] =
     [@ EXCEPT !.calls = @ + 1,
               !.annotated = @ \/ ok,
               !.lastOp = IF ok THEN "annotated" ELSE @]]

\* ------------------------------------------------- trace event vocabulary
Stages == <<"preProcessingTrace", "orchestrationTrace", "rationale",
            "invocationInput", "observation", "postProcessingTrace",
            "guardrailTrace", "failureTrace">>

StageIndex(s) == CHOOSE i \in 1..Len(Stages) : Stages[i] = s

\* the order of the calls in process_trace_event and _process_orchestration_trace
NextStage(s) ==
  IF StageIndex(s) = Len(Stages) THEN "end" ELSE Stages[StageIndex(s) + 1]

\* the keys process_trace_event would still have looked at after stage s
After(s) ==
  IF s = "orchestrationTrace"
  THEN {"postProcessingTrace", "guardrailTrace", "failureTrace"}
  ELSE {Stages[i] : i \in (StageIndex(s) + 1)..Len(Stages)} \ {"orchestrationTrace"}

InvocationTypes ==
  {"ACTION_GROUP", "KNOWLEDGE_BASE", "AGENT_COLLABORATOR", "UNKNOWN_TYPE"}

ObservationTypes ==
  {"ACTION_GROUP", "KNOWLEDGE_BASE", "AGENT_COLLABORATOR", "FINISH", "REPROMPT",
   "UNKNOWN_TYPE"}

\* mutant: the chain ends in an else branch that emits a generic record
InvocationKindWithDefault(t) ==
  CASE t = "ACTION_GROUP" -> "action_input"
    [] t = "KNOWLEDGE_BASE" -> "kb_input"
    [] t = "AGENT_COLLABORATOR" -> "collaborator_input"
    [] OTHER -> "unclassified"

\* the if/elif chain of _process_invocation_input
InvocationKind(t) ==
  CASE t = "ACTION_GROUP" -> "action_input"
    [] t = "KNOWLEDGE_BASE" -> "kb_input"
    [] t = "AGENT_COLLABORATOR" -> "collaborator_input"
    [] OTHER -> "none"

\* the if/elif chain of _process_observation
ObservationKind(t) ==
  CASE t = "ACTION_GROUP" -> "action_output"
    [] t = "KNOWLEDGE_BASE" -> "kb_output"
    [] t = "AGENT_COLLABORATOR" -> "collaborator_output"
    [] t = "FINISH" -> "final_response"
    [] t = "REPROMPT" -> "reprompt"
    [] OTHER -> "none"

\* the record kind a stage key yields (its trace_type tag)
KindOf(s, t) ==
  CASE s = "preProcessingTrace" -> "preprocessing"
    [] s = "rationale" -> "rationale"
    [] s = "invocationInput" -> InvocationKind(t)
    [] s = "observation" -> ObservationKind(t)
    [] s = "postProcessingTrace" -> "postprocessing"
    [] s = "guardrailTrace" -> "guardrail"
    [] s = "failureTrace" -> "failure"
    [] OTHER -> "none"

\* mutant: _process_final_response enters llm_obs.task like the stage methods
CategoryFinalAsTask(k) ==
  CASE k \in {"preprocessing", "postprocessing", "guardrail", "failure",
              "final_response"} -> "task"
    [] k \in {"rationale", "collaborator_input", "collaborator_output", "reprompt"}
         -> "agent"
    [] k \in {"action_input", "action_output"} -> "tool"
    [] k \in {"kb_input", "kb_output"} -> "retrieval"
    [] OTHER -> "none"

\* which llm_obs constructor each _process_* method enters
Category(k) ==
  CASE k \in {"preprocessing", "postprocessing", "guardrail", "failure"} -> "task"
    [] k \in {"rationale", "collaborator_input", "collaborator_output", "reprompt"}
         -> "agent"
    [] k \in {"action_input", "action_output"} -> "tool"
    [] k \in {"kb_input", "kb_output"} -> "retrieval"
    [] k = "final_response" -> "llm"
    [] OTHER -> "none"

RecordKinds ==
  {"preprocessing", "rationale", "action_input", "kb_input", "collaborator_input",
   "action_output", "kb_output", "collaborator_output", "final_response",
   "reprompt", "postprocessing", "guardrail", "failure"}

\* How the content of a stage key can make its _process_* method behave:
\*   "ok"   every field access and the span body succeed
\*   "pre"  a field access before the `with` raises (a nested field is null)
\*   "in"   an argument of annotate raises inside the `with`, before the call
\*          (len(None), None.get)
\*   "post" the safe_print slice after annotate raises inside the `with`
Shapes(k) ==
  CASE k \in {"preprocessing", "kb_input", "collaborator_input",
              "collaborator_output", "final_response", "postprocessing"}
         -> {"ok", "pre", "in", "post"}
    [] k = "rationale" -> {"ok", "in", "post"}
    [] k = "action_input" -> {"ok", "pre", "in"}
    [] k = "guardrail" -> {"ok", "in"}
    [] k = "reprompt" -> {"ok", "pre", "post"}
    [] k \in {"action_output", "kb_output"} -> {"ok", "pre"}
    [] OTHER -> {"ok"}

TypesOf(s) ==
  CASE s = "invocationInput" -> InvocationTypes
    [] s = "observation" -> ObservationTypes
    [] OTHER -> {"-"}

\* what a stage key of the event can hold: it is absent, it holds null (or any
\* other non-mapping), or it holds a mapping with a discriminator and a shape
Contents(s) ==
  {[slot |-> s, state |-> "absent", type |-> "-", shape |-> "ok"],
   [slot |-> s, state |-> "null", type |-> "-", shape |-> "pre"]}
  \cup {[slot |-> s, state |-> "map", type |-> t, shape |-> sh] :
          t \in TypesOf(s), sh \in {"ok", "pre", "in", "post"}}

Feasible(c) ==
  c.state = "map" => c.shape \in Shapes(KindOf(c.slot, c.type))

NoContent == [slot |-> "none", state |-> "absent", type |-> "-", shape |-> "ok"]

\* ----------------------------------------------- the fields of a record
\* A field is named by the keys that lead to it, from the mapping the
\* _process_* method is given (the three names of lines 30-32 from the event).
\* A read is one `.get` chain of the method: the name it is bound to, the
\* field, the default of the last `.get`, whether the chain is evaluated
\* before the `with` ("pre") or among the arguments of annotate ("in"), and
\* the field whose loop the read sits in (<<>> for none).
Read(name, path, default, site) ==
  [name |-> name, path |-> path, default |-> default, site |-> site, under |-> <<>>]

ReadUnder(name, path, default, under) ==
  [name |-> name, path |-> path, default |-> default, site |-> "pre", under |-> under]

Reads(k) ==
  CASE k = "preprocessing" ->
         {Read("agent_name", <<"agentName">>, "unknown", "pre"),
          Read("prompt_text", <<"modelInvocationInput", "text">>, "", "pre"),
          Read("rationale",
               <<"modelInvocationOutput", "parsedResponse", "rationale">>, "", "pre"),
          Read("is_valid",
               <<"modelInvocationOutput", "parsedResponse", "isValid">>, "True", "pre"),
          Read("foundation_model",
               <<"modelInvocationInput", "foundationModel">>, "", "in"),
          Read("usage", <<"modelInvocationOutput", "metadata", "usage">>, "{}", "in")}
    [] k = "rationale" ->
         {Read("agent_id", <<"agentId">>, "unknown", "pre"),
          Read("agent_name", <<"agentName">>, "unknown", "pre"),
          Read("collaborator", <<"collaboratorName">>, "", "pre"),
          Read("rationale_text", <<"text">>, "", "pre")}
    [] k = "action_input" ->
         {Read("action_name",
               <<"actionGroupInvocationInput", "actionGroupName">>, "", "pre"),
          Read("api_path", <<"actionGroupInvocationInput", "apiPath">>, "", "pre"),
          Read("verb", <<"actionGroupInvocationInput", "verb">>, "", "pre"),
          Read("parameters",
               <<"actionGroupInvocationInput", "parameters">>, "[]", "pre"),
          Read("execution_type",
               <<"actionGroupInvocationInput", "executionType">>, "", "in")}
    [] k = "kb_input" ->
         {Read("kb_id", <<"knowledgeBaseLookupInput", "knowledgeBaseId">>, "", "pre"),
          Read("query_text", <<"knowledgeBaseLookupInput", "text">>, "", "pre")}
    [] k = "collaborator_input" ->
         {Read("collab_name",
               <<"agentCollaboratorInvocationInput", "agentCollaboratorName">>,
               "", "pre"),
          Read("input_text",
               <<"agentCollaboratorInvocationInput", "input", "text">>, "", "pre"),
          Read("collaborator_arn",
               <<"agentCollaboratorInvocationInput", "agentCollaboratorAliasArn">>,
               "", "in")}
    [] k = "action_output" ->
         {Read("response_text", <<"actionGroupInvocationOutput", "text">>, "", "pre")}
    [] k = "kb_output" ->
         {Read("references",
               <<"knowledgeBaseLookupOutput", "retrievedReferences">>, "[]", "pre"),
          ReadUnder("text",
                    <<"knowledgeBaseLookupOutput", "retrievedReferences",
                      "content", "text">>, "",
                    <<"knowledgeBaseLookupOutput", "retrievedReferences">>),
          ReadUnder("source",
                    <<"knowledgeBaseLookupOutput", "retrievedReferences",
                      "location", "s3Location", "uri">>, "",
                    <<"knowledgeBaseLookupOutput", "retrievedReferences">>)}
    [] k = "collaborator_output" ->
         {Read("collab_name",
               <<"agentCollaboratorInvocationOutput", "agentCollaboratorName">>,
               "", "pre"),
          Read("output_text",
               <<"agentCollaboratorInvocationOutput", "output", "text">>, "", "pre")}
    [] k = "final_response" ->
         {Read("final_text", <<"finalResponse", "text">>, "", "pre")}
    [] k = "reprompt" ->
         {Read("reprompt_text", <<"repromptResponse", "text">>, "", "pre"),
          Read("reprompt_source", <<"repromptResponse", "source">>, "", "pre")}
    [] k = "postprocessing" ->
         {Read("agent_name", <<"agentName">>, "unknown", "pre"),
          Read("input_text", <<"modelInvocationInput", "text">>, "", "pre"),
          Read("output_text",
               <<"modelInvocationOutput", "parsedResponse", "text">>, "", "pre"),
          Read("foundation_model",
               <<"modelInvocationInput", "foundationModel">>, "", "in"),
          Read("usage", <<"modelInvocationOutput", "metadata", "usage">>, "{}", "in")}
    [] k = "guardrail" ->
         {Read("action", <<"action">>, "", "pre"),
          Read("input_assessments", <<"inputAssessments">>, "[]", "in"),
          Read("output_assessments", <<"outputAssessments">>, "[]", "in")}
    [] k = "failure" ->
         {Read("failure_reason", <<"failureReason">>, "", "pre")}
    [] OTHER -> {}

\* the prefixes of a field, the field itself included
Prefixes(path) == {SubSeq(path, 1, i) : i \in 1..Len(path)}

\* every field a record of kind k can hold, and the ones that hold a mapping
\* or a list of mappings
Fields(k) == UNION {Prefixes(r.path) : r \in Reads(k)}
Containers(k) == UNION {Prefixes(r.path) \ {r.path} : r \in Reads(k)}

\* what the representative record holds in a field, by the type of the field
FixtureValue(default) ==
  CASE default = "" -> "text"
    [] default = "[]" -> "[x]"
    [] default = "True" -> "False"
    [] default = "{}" -> "{x}"
    [] default = "unknown" -> "name"

\* The record of kind k with one field damaged: removed ("absent"), or
\* holding null in place of a mapping ("null"); `field` is <<>> for the
\* undamaged record.
Fixtures ==
  {[kind |-> k, field |-> <<>>, damage |-> "none"] : k \in RecordKinds}
  \cup UNION {{[kind |-> k, field |-> f, damage |-> "absent"] : f \in Fields(k)}
              : k \in RecordKinds}
  \cup UNION {{[kind |-> k, field |-> f, damage |-> "null"] : f \in Containers(k)}
              : k \in RecordKinds}

NoFixture == [kind |-> "none", field |-> <<>>, damage |-> "none"]

\* mutant: the last key of a chain is indexed, d[key], and a missing key raises
LookupIndexed(fx, r) ==
  IF fx.damage = "null" /\ fx.field \in Prefixes(r.path) \ {r.path}
  THEN "AttributeError"
  ELSE IF fx.damage = "absent" /\ fx.field = r.path
  THEN "KeyError"
  ELSE IF fx.damage = "absent" /\ fx.field \in Prefixes(r.path)
  THEN r.default
  ELSE FixtureValue(r.default)

\* d.get(k1, {}).get(k2, {})...get(kn, default) on the record: a null on the
\* way raises (None has no get), a missing key on the way gives the default
Lookup(fx, r) ==
  IF fx.damage = "null" /\ fx.field \in Prefixes(r.path) \ {r.path}
  THEN "AttributeError"
  ELSE IF fx.damage = "absent" /\ fx.field \in Prefixes(r.path)
  THEN r.default
  ELSE FixtureValue(r.default)

\* the reads of one site that are evaluated: those of a loop over a list that
\* is missing are not
Evaluated(fx, site) ==
  {r \in Reads(fx.kind) :
     /\ r.site = site
     /\ ~(r.under # <<>> /\ fx.damage = "absent" /\ fx.field \in Prefixes(r.under))}

Values(fx, site) == {<<r.name, Lookup(fx, r)>> : r \in Evaluated(fx, site)}

Raises(vals) == \E v \in vals : v[2] \in {"AttributeError", "KeyError"}

\* The record kinds of the reference stream: a rationale, an ACTION_GROUP
\* invocationInput, an ACTION_GROUP observation and a FINISH observation.
Scenario == <<"rationale", "action_input", "action_output", "final_response">>

\* prog counts the opens and closes of per-record spans while they follow
\* Scenario (span i is opened at 2i-1 and closed at 2i); Off once they differ
Off == 0 - 1

Opened(p, k) ==
  IF p >= 0 /\ p % 2 = 0 /\ p < 2 * Len(Scenario) /\ Scenario[(p \div 2) + 1] = k
  THEN p + 1 ELSE Off

Closed(p) == IF p >= 0 /\ p % 2 = 1 THEN p + 1 ELSE Off

\* ------------------------------------------------------------------- Init
Init ==
  /\ qi = 1
  /\ rpc = "new"
  /\ results = <<>>
  /\ successful_calls = 0
  /\ enables = 0
  /\ flushes = 0
  /\ flush_result = NoFlush
  /\ apc = "idle"
  /\ stack = <<>>
  /\ output = <<>>
  /\ trace_count = 0
  /\ pulled = 0
  /\ stream = <<>>
  /\ recording = FALSE
  /\ annotated = NotAnnotated
  /\ exc = FALSE
  /\ retval = None
  /\ tpc = "off"
  /\ cur = NoContent
  /\ texc = FALSE
  /\ nWf = 0
  /\ nAg = 0
  /\ nOpened = 0
  /\ nClosed = 0
  /\ errMarked = FALSE
  /\ invocations = 0
  /\ failedAt = "none"
  /\ fault = "none"
  /\ skipped = FALSE
  /\ prog = 0
  /\ outcomes = <<>>
  /\ epc = "off"
  /\ final_response_text = None
  /\ fileWrites = 0
  /\ written = <<>>
  /\ qpc = "off"
  /\ trace_events = 0
  /\ agent_failed = FALSE
  /\ xpc = "off"
  /\ fixture = NoFixture
  /\ extracted = {}
  /\ passes = <<>>
  /\ call = <<>>
  /\ result = <<>>
  /\ now = 0
  /\ sessions = <<>>
  /\ delay = 3

\* ------------------------------------------------------- TraceProcessor
\* an exception reaches the `except Exception` of process_trace_event
Abandon(why) ==
  /\ tpc' = "caught"
  /\ fault' = why
  /\ texc' = FALSE

\* process_trace_event, lines 28-33: the envelope of the event is read
ProcessTraceEvent ==
  /\ tpc = "begin"
  /\ \E wellFormed \in BOOLEAN :
       IF wellFormed
       THEN tpc' = Stages[1] /\ UNCHANGED <<fault, texc>>
       ELSE Abandon("malformed")
  /\ UNCHANGED <<cur, skipped, prog>>
  /\ UNCHANGED <<driverVars, walkerVars, spanVars>>

\* One _process_* method up to the entry of its `with` block: the key is
\* looked up, its fields are extracted, the span is opened.
Stage(s) ==
  /\ tpc = s
  /\ \E c \in {x \in Contents(s) : Feasible(x)} :
       LET k == KindOf(s, c.type) IN
       /\ cur' = c
       /\ CASE c.state = "absent" \/ (c.state = "map" /\ k = "none") ->
                 /\ tpc' = NextStage(s)
                 /\ UNCHANGED <<fault, texc, spanVars, prog>>
            [] c.state = "null" \/ (c.state = "map" /\ k # "none" /\ c.shape = "pre") ->
                 /\ Abandon("malformed")
                 /\ UNCHANGED <<spanVars, prog>>
            [] OTHER ->
                 /\ stack' = Push(stack, nOpened + 1, k, Category(k))
                 /\ nOpened' = nOpened + 1
                 /\ prog' = IF recording THEN Opened(prog, k) ELSE prog
                 /\ tpc' = "span"
                 /\ UNCHANGED <<fault, texc, nClosed>>
  /\ UNCHANGED skipped
  /\ UNCHANGED <<driverVars, walkerVars>>

ProcessPreprocessingTrace == Stage("preProcessingTrace")

\* _process_orchestration_trace, lines 80-83: the container of the sub-kinds
ProcessOrchestrationTrace ==
  /\ tpc = "orchestrationTrace"
  /\ \E st \in {"absent", "null", "map"} :
       /\ cur' = [slot |-> "orchestrationTrace", state |-> st, type |-> "-",
                  shape |-> IF st = "null" THEN "pre" ELSE "ok"]
       /\ CASE st = "absent" ->
                 tpc' = "postProcessingTrace" /\ UNCHANGED <<fault, texc>>
            [] st = "null" -> Abandon("malformed")
            [] OTHER -> tpc' = "rationale" /\ UNCHANGED <<fault, texc>>
  /\ UNCHANGED <<skipped, prog>>
  /\ UNCHANGED <<driverVars, walkerVars, spanVars>>

ProcessRationale == Stage("rationale")

ProcessInvocationInput == Stage("invocationInput")

ProcessObservation == Stage("observation")

ProcessPostprocessingTrace == Stage("postProcessingTrace")

ProcessGuardrailTrace == Stage("guardrailTrace")

ProcessFailureTrace == Stage("failureTrace")

\* the body of the `with` block of a _process_* method: the arguments of
\* annotate are evaluated, annotate is called, safe_print formats its line
AnnotateRecord ==
  /\ tpc = "span"
  /\ IF cur.shape = "in"
     THEN /\ texc' = TRUE
          /\ fault' = "malformed"
          /\ UNCHANGED stack
     ELSE \E ok \in BOOLEAN :
            /\ stack' = Annotate(stack, ok)
            /\ texc' = (~ok \/ cur.shape = "post")
            /\ fault' = IF ~ok THEN "annotate"
                        ELSE IF cur.shape = "post" THEN "malformed" ELSE fault
  /\ tpc' = "exit"
  /\ UNCHANGED <<cur, skipped, prog, nOpened, nClosed>>
  /\ UNCHANGED <<driverVars, walkerVars>>

\* mutant: the span is entered and exited by hand, the exit is not reached
\* when the body raises
ExitRecordUnlessRaised ==
  /\ tpc = "exit"
  /\ stack' = IF texc THEN stack ELSE Pop(stack)
  /\ nClosed' = IF texc THEN nClosed ELSE nClosed + 1
  /\ prog' = IF recording /\ ~texc THEN Closed(prog) ELSE prog
  /\ tpc' = IF texc THEN "caught" ELSE NextStage(cur.slot)
  /\ texc' = FALSE
  /\ UNCHANGED <<cur, fault, skipped, nOpened>>
  /\ UNCHANGED <<driverVars, walkerVars>>

\* mutant: the span of a stage is left open while the next stage runs
ExitRecordLeftOpen ==
  /\ tpc = "exit"
  /\ stack' = IF texc THEN Pop(stack) ELSE stack
  /\ nClosed' = IF texc THEN nClosed + 1 ELSE nClosed
  /\ prog' = IF recording THEN Closed(prog) ELSE prog
  /\ tpc' = IF texc THEN "caught" ELSE NextStage(cur.slot)
  /\ texc' = FALSE
  /\ UNCHANGED <<cur, fault, skipped, nOpened>>
  /\ UNCHANGED <<driverVars, walkerVars>>

\* the exit of the `with` block of a _process_* method
ExitRecord ==
  /\ tpc = "exit"
  /\ stack' = Pop(stack)
  /\ nClosed' = nClosed + 1
  /\ prog' = IF recording THEN Closed(prog) ELSE prog
  /\ tpc' = IF texc THEN "caught" ELSE NextStage(cur.slot)
  /\ texc' = FALSE
  /\ UNCHANGED <<cur, fault, skipped, nOpened>>
  /\ UNCHANGED <<driverVars, walkerVars>>

\* process_trace_event, lines 42-44: the exception is logged and the event is
\* abandoned; whether one of the keys that were never looked at is present is
\* whatever the event holds
Caught ==
  /\ tpc = "caught"
  /\ \E more \in BOOLEAN :
       /\ more => (cur.slot # "none" /\ After(cur.slot) # {})
       /\ skipped' = more
  /\ cur' = NoContent
  /\ tpc' = "end"
  /\ UNCHANGED <<texc, fault, prog>>
  /\ UNCHANGED <<driverVars, walkerVars, spanVars>>

\* ---------------------------------------------------- AgentOrchestrator
\* line 38: session_id = f"bedrock-trace_{int(time.time())}"
SessionId(t) == <<"bedrock-trace", t>>

\* ask_agent_with_traces, lines 37-43: the locals are set and the root
\* workflow span is opened
AskAgentWithTraces ==
  /\ apc = "start"
  /\ output' = <<>>
  /\ trace_count' = 0
  /\ pulled' = 0
  /\ stream' = <<>>
  /\ stack' = Push(stack, nOpened + 1, "workflow", "workflow")
  /\ nOpened' = nOpened + 1
  /\ nWf' = nWf + 1
  /\ apc' = "wf_annotate"
  /\ sessions' = Append(sessions, SessionId(now))
  /\ UNCHANGED <<exc, annotated, retval, nAg, errMarked, invocations, failedAt, nClosed>>
  /\ UNCHANGED <<runnerVars, evalVars, recording, queryVars, fieldVars, utilVars,
                 backendVars, now, delay, eventVars>>

\* lines 46-57: the workflow span is annotated with the question
AnnotateWorkflowStart ==
  /\ apc = "wf_annotate"
  /\ \E ok \in BOOLEAN :
       /\ stack' = Annotate(stack, ok)
       /\ exc' = ~ok
       /\ failedAt' = IF ok THEN failedAt ELSE "annotate"
       /\ apc' = IF ok THEN "agent_open" ELSE "except"
  /\ UNCHANGED <<output, trace_count, pulled, stream, annotated, retval, nWf, nAg, errMarked, invocations>>
  /\ UNCHANGED <<nOpened, nClosed>>
  /\ UNCHANGED <<driverVars, eventVars>>

\* mutant: the agent `with` is written after the workflow `with`, not inside it
OpenRootAgentAsSibling ==
  /\ apc = "agent_open"
  /\ stack' = Push(Pop(stack), nOpened + 1, "root_agent", "agent")
  /\ nOpened' = nOpened + 1
  /\ nAg' = nAg + 1
  /\ apc' = "invoke"
  /\ UNCHANGED <<output, trace_count, pulled, stream, exc, annotated, retval, nWf, errMarked, invocations, failedAt, nClosed>>
  /\ UNCHANGED <<driverVars, eventVars>>

\* lines 59-60: the root agent span is opened inside the workflow span
OpenRootAgent ==
  /\ apc = "agent_open"
  /\ stack' = Push(stack, nOpened + 1, "root_agent", "agent")
  /\ nOpened' = nOpened + 1
  /\ nAg' = nAg + 1
  /\ apc' = "invoke"
  /\ UNCHANGED <<output, trace_count, pulled, stream, exc, annotated, retval, nWf, errMarked, invocations, failedAt, nClosed>>
  /\ UNCHANGED <<driverVars, eventVars>>

\* line 64: bedrock_service.invoke_agent returns the event source or raises
InvokeAgent ==
  /\ apc = "invoke"
  /\ invocations' = invocations + 1
  /\ \E ok \in BOOLEAN :
       /\ exc' = ~ok
       /\ failedAt' = IF ok THEN failedAt ELSE "invoke"
       /\ apc' = IF ok THEN "stream" ELSE "exit_agent"
  /\ UNCHANGED <<output, trace_count, pulled, stream, annotated, retval, nWf, nAg, errMarked>>
  /\ UNCHANGED <<driverVars, eventVars, spanVars>>

\* lines 70-75: the item holds a chunk key (a trace key beside it is not
\* looked at); without a bytes key nothing is appended
StreamChunk ==
  /\ apc = "stream"
  /\ pulled < MaxEvents
  /\ pulled' = pulled + 1
  /\ \E key \in {"chunk", "both"}, text \in ChunkTexts \cup {<<>>} :
       /\ key = "both" => text = <<"a">>
       /\ stream' = IF recording THEN Append(stream, Item(key, text)) ELSE stream
       /\ output' = output \o text
  /\ UNCHANGED <<apc, trace_count, exc, annotated, retval, nWf, nAg, errMarked, invocations, failedAt>>
  /\ UNCHANGED <<driverVars, eventVars, spanVars>>

\* mutant: the text of a trace record is appended to the answer buffer
StreamTraceIntoAnswer ==
  /\ apc = "stream"
  /\ pulled < MaxEvents
  /\ pulled' = pulled + 1
  /\ stream' = IF recording THEN Append(stream, Item("trace", <<>>)) ELSE stream
  /\ trace_count' = trace_count + 1
  /\ output' = output \o <<"a">>
  /\ apc' = "trace"
  /\ tpc' = "begin"
  /\ UNCHANGED <<cur, texc, fault, skipped, prog>>
  /\ UNCHANGED <<exc, annotated, retval, nWf, nAg, errMarked, invocations, failedAt>>
  /\ UNCHANGED <<driverVars, spanVars>>

\* lines 77-80: the item holds a trace key and no chunk key
StreamTrace ==
  /\ apc = "stream"
  /\ pulled < MaxEvents
  /\ pulled' = pulled + 1
  /\ stream' = IF recording THEN Append(stream, Item("trace", <<>>)) ELSE stream
  /\ trace_count' = trace_count + 1
  /\ apc' = "trace"
  /\ tpc' = "begin"
  /\ UNCHANGED <<cur, texc, fault, skipped, prog>>
  /\ UNCHANGED <<output, exc, annotated, retval, nWf, nAg, errMarked, invocations, failedAt>>
  /\ UNCHANGED <<driverVars, spanVars>>

\* process_trace_event returns to the loop of ask_agent_with_traces
TraceEventReturn ==
  /\ apc = "trace"
  /\ tpc = "end"
  /\ tpc' = "off"
  /\ cur' = NoContent
  /\ fault' = "none"
  /\ skipped' = FALSE
  /\ apc' = "stream"
  /\ UNCHANGED <<texc, prog>>
  /\ UNCHANGED <<output, trace_count, pulled, stream, exc, annotated, retval, nWf, nAg, errMarked, invocations, failedAt>>
  /\ UNCHANGED <<driverVars, spanVars>>

\* lines 70-80: the item holds neither key
StreamOther ==
  /\ apc = "stream"
  /\ pulled < MaxEvents
  /\ pulled' = pulled + 1
  /\ stream' = IF recording THEN Append(stream, Item("other", <<>>)) ELSE stream
  /\ UNCHANGED <<apc, output, trace_count, exc, annotated, retval, nWf, nAg, errMarked, invocations, failedAt>>
  /\ UNCHANGED <<driverVars, eventVars, spanVars>>

\* lines 69-73: pulling the next item raises, or the bytes of a chunk do not
\* decode
StreamRaise ==
  /\ apc = "stream"
  /\ exc' = TRUE
  /\ failedAt' = "stream"
  /\ apc' = "exit_agent"
  /\ UNCHANGED <<output, trace_count, pulled, stream, annotated, retval, nWf, nAg, errMarked, invocations>>
  /\ UNCHANGED <<driverVars, eventVars, spanVars>>

\* line 69: the event source is exhausted
StreamEnd ==
  /\ apc = "stream"
  /\ apc' = "rescan"
  /\ UNCHANGED <<output, trace_count, pulled, stream, exc, annotated, retval, nWf, nAg, errMarked, invocations, failedAt>>
  /\ UNCHANGED <<driverVars, eventVars, spanVars>>

\* lines 83-87: response.get("completion", []) is iterated a second time to
\* collect the trace items for extract_chunks_from_trace: a list delivers
\* every item again, a one-shot stream that is exhausted delivers nothing.
\* extract_chunks_from_trace looks for orchestrationTrace one level above
\* where the event holds it, finds nothing and swallows its own errors
ExtractChunks ==
  /\ apc = "rescan"
  /\ apc' = "agent_annotate"
  /\ \E reiterable \in BOOLEAN :
       pulled' = IF reiterable THEN pulled + pulled ELSE pulled
  /\ UNCHANGED <<output, trace_count, stream, exc, annotated, retval, nWf, nAg, errMarked, invocations, failedAt>>
  /\ UNCHANGED <<driverVars, eventVars, spanVars>>

\* lines 90-111: the root agent span is annotated with the answer and the
\* counters, then the return value is computed
AnnotateRootAgent ==
  /\ apc = "agent_annotate"
  /\ \E ok \in BOOLEAN :
       /\ stack' = Annotate(stack, ok)
       /\ exc' = ~ok
       /\ failedAt' = IF ok THEN failedAt ELSE "annotate"
       /\ retval' = IF ok THEN ReturnValue(output) ELSE retval
       /\ annotated' = IF ok
                       THEN [done |-> TRUE, content |-> output,
                             total_trace_events |-> trace_count]
                       ELSE annotated
  /\ apc' = "exit_agent"
  /\ UNCHANGED <<output, trace_count, pulled, stream, nWf, nAg, errMarked, invocations>>
  /\ UNCHANGED <<nOpened, nClosed>>
  /\ UNCHANGED <<driverVars, eventVars>>

\* the exit of `with self.llm_obs.agent(...)`, by return or by exception
ExitRootAgent ==
  /\ apc = "exit_agent"
  /\ stack' = Pop(stack)
  /\ nClosed' = nClosed + 1
  /\ apc' = IF exc THEN "except" ELSE "exit_wf"
  /\ UNCHANGED <<output, trace_count, pulled, stream, exc, annotated, retval, nWf, nAg, errMarked, invocations, failedAt>>
  /\ UNCHANGED nOpened
  /\ UNCHANGED <<driverVars, eventVars>>


\* mutant: the except block returns what the buffer held when the stream failed
HandleWorkflowErrorKeepsPartial ==
  /\ apc = "except"
  /\ \E ok \in BOOLEAN :
       /\ stack' = Annotate(stack, ok)
       /\ errMarked' = ok
       /\ exc' = ~ok
  /\ retval' = ReturnValue(output)
  /\ apc' = "exit_wf"
  /\ UNCHANGED <<output, trace_count, pulled, stream, annotated, nWf, nAg,
                 invocations, failedAt>>
  /\ UNCHANGED <<nOpened, nClosed>>
  /\ UNCHANGED <<driverVars, eventVars>>

\* lines 113-128: the except block annotates the error marker and returns None
HandleWorkflowError ==
  /\ apc = "except"
  /\ \E ok \in BOOLEAN :
       /\ stack' = Annotate(stack, ok)
       /\ errMarked' = ok
       /\ exc' = ~ok
  /\ retval' = None
  /\ apc' = "exit_wf"
  /\ UNCHANGED <<output, trace_count, pulled, stream, annotated, nWf, nAg,
                 invocations, failedAt>>
  /\ UNCHANGED <<nOpened, nClosed>>
  /\ UNCHANGED <<driverVars, eventVars>>

\* the exit of `with self.llm_obs.workflow(...)`, by return or by exception
ExitWorkflow ==
  /\ apc = "exit_wf"
  /\ stack' = Pop(stack)
  /\ nClosed' = nClosed + 1
  /\ apc' = IF exc THEN "raised" ELSE "returned"
  /\ UNCHANGED <<output, trace_count, pulled, stream, exc, annotated, retval, nWf, nAg, errMarked, invocations, failedAt>>
  /\ UNCHANGED nOpened
  /\ UNCHANGED <<driverVars, eventVars>>

\* ------------------------------------------------------------ TestRunner
\* main, line 84 (run_evaluation, line 87): TestRunner() builds the
\* orchestrator, whose DatadogService enables the backend in its constructor
\* (datadog_service.py lines 15-33); an exception of LLMObs.enable is logged
\* and raised again
NewTestRunner ==
  /\ rpc = "new"
  /\ enables' = enables + 1
  /\ \E ok \in BOOLEAN : rpc' = IF ok THEN "loop" ELSE "aborted"
  /\ UNCHANGED <<qi, results, successful_calls, outcomes, flushes, flush_result>>
  /\ UNCHANGED <<walkerVars, eventVars, spanVars, evalVars, recording, queryVars, fieldVars, utilVars, sessionVars>>

\* run_test_suite, lines 40-42: Question.from_dict validates the record
\* (a blank text raises ValueError out of the loop), then _run_single_test
\* calls ask_agent_with_traces. Since the call before, the sleep of
\* delay_between_tests seconds (lines 50-51) and the processing have passed:
\* after a positive delay the clock shows a later second, after a delay of 0
\* it shows the same second or a later one
NextQuestion ==
  /\ rpc = "loop"
  /\ qi <= NumQuestions
  /\ \E blank \in BOOLEAN :
       IF blank
       THEN rpc' = "aborted" /\ apc' = apc
       ELSE rpc' = "test" /\ apc' = "start"
  /\ \E dt \in {0, 1} :
       now' = IF qi = 1 THEN now ELSE IF delay > 0 THEN now + 1 ELSE now + dt
  /\ UNCHANGED <<qi, results, successful_calls, outcomes>>
  /\ UNCHANGED <<output, trace_count, pulled, stream, exc, annotated, retval, nWf, nAg, errMarked, invocations, failedAt>>
  /\ UNCHANGED <<eventVars, spanVars, evalVars, recording, queryVars, fieldVars, utilVars, sessions,
                 delay, backendVars>>

\* how ask_agent_with_traces ended, as the walker itself saw it
Ended ==
  IF apc = "raised" THEN "raised" ELSE IF errMarked THEN "failed" ELSE "completed"

\* mutant: _run_single_test has no except block, an exception of the walker
\* leaves run_test_suite
RunSingleTestNoExcept ==
  /\ rpc = "test"
  /\ apc \in {"returned", "raised"}
  /\ IF apc = "raised"
     THEN /\ rpc' = "aborted"
          /\ UNCHANGED <<qi, results, successful_calls, outcomes>>
          /\ UNCHANGED <<walkerVars, nOpened, nClosed>>
     ELSE /\ results' = Append(results, [success |-> Success(retval),
                                         response |-> retval])
          /\ successful_calls' = successful_calls + (IF Success(retval) THEN 1 ELSE 0)
          /\ outcomes' = Append(outcomes, Ended)
          /\ qi' = qi + 1
          /\ rpc' = "loop"
          /\ apc' = "idle"
          /\ output' = <<>>
          /\ trace_count' = 0
          /\ pulled' = 0
          /\ stream' = <<>>
          /\ annotated' = NotAnnotated
          /\ exc' = FALSE
          /\ retval' = None
          /\ nWf' = 0
          /\ nAg' = 0
          /\ errMarked' = FALSE
          /\ invocations' = 0
          /\ failedAt' = "none"
          /\ nOpened' = 0
          /\ nClosed' = 0
  /\ UNCHANGED stack
  /\ UNCHANGED <<eventVars, evalVars, recording, queryVars, fieldVars, utilVars, sessionVars, backendVars>>

\* _run_single_test, lines 72-105, and run_test_suite, lines 44-51: the
\* result is built from the return value or from the exception, counted and
\* appended
RunSingleTest ==
  /\ rpc = "test"
  /\ apc \in {"returned", "raised"}
  /\ LET response == IF apc = "returned" THEN retval ELSE None
         success == IF apc = "returned" THEN Success(response) ELSE FALSE
     IN  /\ results' = Append(results, [success |-> success, response |-> response])
         /\ successful_calls' = successful_calls + (IF success THEN 1 ELSE 0)
  /\ outcomes' = Append(outcomes, Ended)
  /\ qi' = qi + 1
  /\ rpc' = "loop"
  /\ apc' = "idle"
  /\ output' = <<>>
  /\ trace_count' = 0
  /\ pulled' = 0
  /\ stream' = <<>>
  /\ annotated' = NotAnnotated
  /\ exc' = FALSE
  /\ retval' = None
  /\ nWf' = 0
  /\ nAg' = 0
  /\ errMarked' = FALSE
  /\ invocations' = 0
  /\ failedAt' = "none"
  /\ nOpened' = 0
  /\ nClosed' = 0
  /\ UNCHANGED stack
  /\ UNCHANGED <<eventVars, evalVars, recording, queryVars, fieldVars, utilVars, sessionVars, backendVars>>

\* run_test_suite, lines 53-54: the summary is printed and the results returned
FinishSuite ==
  /\ rpc = "loop"
  /\ qi > NumQuestions
  /\ rpc' = "done"
  /\ UNCHANGED <<qi, results, successful_calls, outcomes>>
  /\ UNCHANGED <<walkerVars, eventVars, spanVars, evalVars, recording, queryVars, fieldVars, utilVars, sessionVars, backendVars>>

\* DatadogService.flush_data, lines 35-43: True, or False when LLMObs.flush
\* raised
FlushData(raised) == ~raised

\* get_results_summary, lines 170-187, without the durations
ResultsSummary(rs) ==
  IF rs = <<>> THEN [error |-> "No results available"]
  ELSE [total_tests |-> Len(rs),
        successful_tests |-> Cardinality({i \in 1..Len(rs) : rs[i].success}),
        failed_tests |-> Len(rs) - Cardinality({i \in 1..Len(rs) : rs[i].success}),
        results |-> rs]

\* mutant: the data is flushed while the loop over the questions runs
FlushDataToDatadogInLoop ==
  /\ rpc = "done" \/ (rpc = "loop" /\ flushes = 0)
  /\ flushes' = flushes + 1
  /\ \E raised \in BOOLEAN :
       flush_result' = [called |-> TRUE, raised |-> raised,
                        returned |-> FlushData(raised)]
  /\ rpc' = IF rpc = "done" THEN "flushed" ELSE rpc
  /\ UNCHANGED <<qi, results, successful_calls, outcomes, enables>>
  /\ UNCHANGED <<walkerVars, eventVars, spanVars, evalVars, recording, queryVars, fieldVars, utilVars, sessionVars>>

\* mutant: flush_data has no except block, an exception of LLMObs.flush leaves
\* main
FlushDataToDatadogRaises ==
  /\ rpc = "done"
  /\ flushes' = flushes + 1
  /\ \E raised \in BOOLEAN :
       /\ flush_result' = [called |-> TRUE, raised |-> raised, returned |-> ~raised]
       /\ rpc' = IF raised THEN "aborted" ELSE "flushed"
  /\ UNCHANGED <<qi, results, successful_calls, outcomes, enables>>
  /\ UNCHANGED <<walkerVars, eventVars, spanVars, evalVars, recording, queryVars, fieldVars, utilVars, sessionVars>>

\* main, line 88 (run_evaluation, line 91): flush_data_to_datadog, lines
\* 148-168, returns what DatadogService.flush_data returns, which is False
\* when LLMObs.flush raises (datadog_service.py lines 35-43)
FlushDataToDatadog ==
  /\ rpc = "done"
  /\ flushes' = flushes + 1
  /\ \E raised \in BOOLEAN :
       flush_result' = [called |-> TRUE, raised |-> raised,
                        returned |-> FlushData(raised)]
  /\ rpc' = "flushed"
  /\ UNCHANGED <<qi, results, successful_calls, outcomes, enables>>
  /\ UNCHANGED <<walkerVars, eventVars, spanVars, evalVars, recording, queryVars, fieldVars, utilVars, sessionVars>>

\* main, lines 91-92 (run_evaluation, lines 94-97): the summary is taken and
\* printed
PrintFinalSummary ==
  /\ rpc = "flushed"
  /\ rpc' = "exit"
  /\ UNCHANGED <<qi, results, successful_calls, outcomes, backendVars>>
  /\ UNCHANGED <<walkerVars, eventVars, spanVars, evalVars, recording, queryVars, fieldVars, utilVars, sessionVars>>

\* ------------------------------------------------------------------ Spec
Next ==
  \/ NewTestRunner
  \/ NextQuestion
  \/ RunSingleTest
  \/ FinishSuite
  \/ FlushDataToDatadog
  \/ PrintFinalSummary
  \/ AskAgentWithTraces
  \/ AnnotateWorkflowStart
  \/ OpenRootAgent
  \/ InvokeAgent
  \/ StreamChunk
  \/ StreamTrace
  \/ StreamOther
  \/ StreamRaise
  \/ StreamEnd
  \/ TraceEventReturn
  \/ ExtractChunks
  \/ AnnotateRootAgent
  \/ ExitRootAgent
  \/ HandleWorkflowError
  \/ ExitWorkflow
  \/ ProcessTraceEvent
  \/ ProcessPreprocessingTrace
  \/ ProcessOrchestrationTrace
  \/ ProcessRationale
  \/ ProcessInvocationInput
  \/ ProcessObservation
  \/ ProcessPostprocessingTrace
  \/ ProcessGuardrailTrace
  \/ ProcessFailureTrace
  \/ AnnotateRecord
  \/ ExitRecord
  \/ Caught

Spec == Init /\ [][Next]_vars

\* run_test_suite called with any delay_between_tests: main passes 3
\* (main.py line 85), a caller may pass 0
AnyDelayInit ==
  /\ qi = 1
  /\ rpc = "new"
  /\ results = <<>>
  /\ successful_calls = 0
  /\ enables = 0
  /\ flushes = 0
  /\ flush_result = NoFlush
  /\ apc = "idle"
  /\ stack = <<>>
  /\ output = <<>>
  /\ trace_count = 0
  /\ pulled = 0
  /\ stream = <<>>
  /\ recording = FALSE
  /\ annotated = NotAnnotated
  /\ exc = FALSE
  /\ retval = None
  /\ tpc = "off"
  /\ cur = NoContent
  /\ texc = FALSE
  /\ nWf = 0
  /\ nAg = 0
  /\ nOpened = 0
  /\ nClosed = 0
  /\ errMarked = FALSE
  /\ invocations = 0
  /\ failedAt = "none"
  /\ fault = "none"
  /\ skipped = FALSE
  /\ prog = 0
  /\ outcomes = <<>>
  /\ epc = "off"
  /\ final_response_text = None
  /\ fileWrites = 0
  /\ written = <<>>
  /\ qpc = "off"
  /\ trace_events = 0
  /\ agent_failed = FALSE
  /\ xpc = "off"
  /\ fixture = NoFixture
  /\ extracted = {}
  /\ passes = <<>>
  /\ call = <<>>
  /\ result = <<>>
  /\ now = 0
  /\ sessions = <<>>
  /\ delay \in {0, 3}

AnyDelaySpec == AnyDelayInit /\ [][Next]_vars

\* ------------------------------------------- one call of the walker alone
\* one call of ask_agent_with_traces on its own; the items the event source
\* delivers are recorded
WalkerInit ==
  /\ qi = 1
  /\ rpc = "off"
  /\ results = <<>>
  /\ successful_calls = 0
  /\ enables = 0
  /\ flushes = 0
  /\ flush_result = NoFlush
  /\ apc = "start"
  /\ stack = <<>>
  /\ output = <<>>
  /\ trace_count = 0
  /\ pulled = 0
  /\ stream = <<>>
  /\ recording = TRUE
  /\ annotated = NotAnnotated
  /\ exc = FALSE
  /\ retval = None
  /\ tpc = "off"
  /\ cur = NoContent
  /\ texc = FALSE
  /\ nWf = 0
  /\ nAg = 0
  /\ nOpened = 0
  /\ nClosed = 0
  /\ errMarked = FALSE
  /\ invocations = 0
  /\ failedAt = "none"
  /\ fault = "none"
  /\ skipped = FALSE
  /\ prog = 0
  /\ outcomes = <<>>
  /\ epc = "off"
  /\ final_response_text = None
  /\ fileWrites = 0
  /\ written = <<>>
  /\ qpc = "off"
  /\ trace_events = 0
  /\ agent_failed = FALSE
  /\ xpc = "off"
  /\ fixture = NoFixture
  /\ extracted = {}
  /\ passes = <<>>
  /\ call = <<>>
  /\ result = <<>>
  /\ now = 0
  /\ sessions = <<>>
  /\ delay = 3

WalkerNext ==
  \/ AskAgentWithTraces
  \/ AnnotateWorkflowStart
  \/ OpenRootAgent
  \/ InvokeAgent
  \/ StreamChunk
  \/ StreamTrace
  \/ StreamOther
  \/ StreamRaise
  \/ StreamEnd
  \/ TraceEventReturn
  \/ ExtractChunks
  \/ AnnotateRootAgent
  \/ ExitRootAgent
  \/ HandleWorkflowError
  \/ ExitWorkflow
  \/ ProcessTraceEvent
  \/ ProcessPreprocessingTrace
  \/ ProcessOrchestrationTrace
  \/ ProcessRationale
  \/ ProcessInvocationInput
  \/ ProcessObservation
  \/ ProcessPostprocessingTrace
  \/ ProcessGuardrailTrace
  \/ ProcessFailureTrace
  \/ AnnotateRecord
  \/ ExitRecord
  \/ Caught

WalkerSpec == WalkerInit /\ [][WalkerNext]_vars

\* the call runs on a single thread and every step of it returns: the event
\* source is finite (MaxEvents items), so the call is never suspended for ever
FairWalkerSpec == WalkerInit /\ [][WalkerNext]_vars /\ WF_vars(WalkerNext)

\* ------------------------------------------------------------ dd_eval.main
\* the state before main() of dd_eval.py runs
EvalInit ==
  /\ qi = 1
  /\ rpc = "off"
  /\ results = <<>>
  /\ successful_calls = 0
  /\ enables = 0
  /\ flushes = 0
  /\ flush_result = NoFlush
  /\ apc = "idle"
  /\ stack = <<>>
  /\ output = <<>>
  /\ trace_count = 0
  /\ pulled = 0
  /\ stream = <<>>
  /\ recording = FALSE
  /\ annotated = NotAnnotated
  /\ exc = FALSE
  /\ retval = None
  /\ tpc = "off"
  /\ cur = NoContent
  /\ texc = FALSE
  /\ nWf = 0
  /\ nAg = 0
  /\ nOpened = 0
  /\ nClosed = 0
  /\ errMarked = FALSE
  /\ invocations = 0
  /\ failedAt = "none"
  /\ fault = "none"
  /\ skipped = FALSE
  /\ prog = 0
  /\ outcomes = <<>>
  /\ epc = "loop"
  /\ final_response_text = None
  /\ fileWrites = 0
  /\ written = <<>>
  /\ qpc = "off"
  /\ trace_events = 0
  /\ agent_failed = FALSE
  /\ xpc = "off"
  /\ fixture = NoFixture
  /\ extracted = {}
  /\ passes = <<>>
  /\ call = <<>>
  /\ result = <<>>
  /\ now = 0
  /\ sessions = <<>>
  /\ delay = 3

\* what no step of dd_eval.main touches
evalFrame == <<rpc, successful_calls, outcomes, apc, retval, nWf, nAg, errMarked,
               invocations, failedAt,
               stream, recording, annotated, eventVars, queryVars, fieldVars, utilVars, sessionVars,
               backendVars>>

\* main, lines 323-341: the locals of one question are set and the root
\* workflow span is opened
EvalNextQuestion ==
  /\ epc = "loop"
  /\ qi <= NumQuestions
  /\ output' = <<>>
  /\ trace_count' = 0
  /\ pulled' = 0
  /\ final_response_text' = None
  /\ stack' = Push(stack, nOpened + 1, "workflow", "workflow")
  /\ nOpened' = nOpened + 1
  /\ epc' = "wf_annotate"
  /\ UNCHANGED <<qi, results, exc, nClosed, fileWrites, written>>
  /\ UNCHANGED evalFrame

\* main, lines 342-353: the workflow span is annotated with the question; no
\* try block surrounds the body of the loop
EvalAnnotateWorkflowStart ==
  /\ epc = "wf_annotate"
  /\ \E ok \in BOOLEAN :
       /\ stack' = Annotate(stack, ok)
       /\ exc' = ~ok
       /\ epc' = IF ok THEN "agent_open" ELSE "unwind"
  /\ UNCHANGED <<qi, results, output, trace_count, pulled, final_response_text,
                 nOpened, nClosed, fileWrites, written>>
  /\ UNCHANGED evalFrame

\* main, line 355: the root agent span is opened
EvalOpenRootAgent ==
  /\ epc = "agent_open"
  /\ stack' = Push(stack, nOpened + 1, "root_agent", "agent")
  /\ nOpened' = nOpened + 1
  /\ epc' = "invoke"
  /\ UNCHANGED <<qi, results, output, trace_count, pulled, final_response_text,
                 exc, nClosed, fileWrites, written>>
  /\ UNCHANGED evalFrame

\* main, lines 357-363: client.invoke_agent returns the event source or raises
EvalInvokeAgent ==
  /\ epc = "invoke"
  /\ \E ok \in BOOLEAN :
       /\ exc' = ~ok
       /\ epc' = IF ok THEN "stream" ELSE "unwind"
  /\ UNCHANGED <<qi, results, output, trace_count, pulled, final_response_text,
                 fileWrites, written>>
  /\ UNCHANGED spanVars
  /\ UNCHANGED evalFrame

\* main, lines 366-371: a content fragment is decoded and appended
EvalStreamChunk ==
  /\ epc = "stream"
  /\ pulled < MaxEvents
  /\ pulled' = pulled + 1
  /\ \E text \in ChunkTexts \cup {<<>>} : output' = output \o text
  /\ UNCHANGED <<qi, results, trace_count, final_response_text, exc, epc,
                 fileWrites, written>>
  /\ UNCHANGED spanVars
  /\ UNCHANGED evalFrame

\* main, lines 372-381: a trace item is counted, a FINISH observation with a
\* finalResponse sets final_response_text, and the process_trace_event of
\* dd_eval.py (lines 72-281) opens and closes its spans and swallows its own
\* errors; the lookups of lines 375-380 are outside of it and raise on a trace
\* that is not a mapping
EvalStreamTrace ==
  /\ epc = "stream"
  /\ pulled < MaxEvents
  /\ pulled' = pulled + 1
  /\ trace_count' = trace_count + 1
  /\ \E shape \in {"plain", "finish", "malformed"} :
       /\ final_response_text' =
            IF shape = "finish" THEN Some(<<"a">>) ELSE final_response_text
       /\ exc' = (shape = "malformed")
       /\ epc' = IF shape = "malformed" THEN "unwind" ELSE epc
  /\ UNCHANGED <<qi, results, output, fileWrites, written>>
  /\ UNCHANGED spanVars
  /\ UNCHANGED evalFrame

\* main, lines 365-369: pulling the next item raises, or the bytes of a chunk
\* do not decode
EvalStreamRaise ==
  /\ epc = "stream"
  /\ exc' = TRUE
  /\ epc' = "unwind"
  /\ UNCHANGED <<qi, results, output, trace_count, pulled, final_response_text,
                 fileWrites, written>>
  /\ UNCHANGED spanVars
  /\ UNCHANGED evalFrame

\* main, line 365: the event source is exhausted
EvalStreamEnd ==
  /\ epc = "stream"
  /\ epc' = "agent_annotate"
  /\ UNCHANGED <<qi, results, output, trace_count, pulled, final_response_text,
                 exc, fileWrites, written>>
  /\ UNCHANGED spanVars
  /\ UNCHANGED evalFrame

\* main, line 383
OutputToUse == IF final_response_text # None THEN final_response_text.val ELSE output

\* main, lines 385-402: the root agent span is annotated with the answer
EvalAnnotateRootAgent ==
  /\ epc = "agent_annotate"
  /\ \E ok \in BOOLEAN :
       /\ stack' = Annotate(stack, ok)
       /\ exc' = ~ok
       /\ epc' = IF ok THEN "exit_agent" ELSE "unwind"
  /\ UNCHANGED <<qi, results, output, trace_count, pulled, final_response_text,
                 nOpened, nClosed, fileWrites, written>>
  /\ UNCHANGED evalFrame

\* main: the normal exit of `with LLMObs.agent(...)`
EvalExitRootAgent ==
  /\ epc = "exit_agent"
  /\ stack' = Pop(stack)
  /\ nClosed' = nClosed + 1
  /\ epc' = "wf_final"
  /\ UNCHANGED <<qi, results, output, trace_count, pulled, final_response_text,
                 exc, nOpened, fileWrites, written>>
  /\ UNCHANGED evalFrame

\* main, lines 404-408: the workflow span is annotated with the final output
EvalAnnotateWorkflowFinal ==
  /\ epc = "wf_final"
  /\ \E ok \in BOOLEAN :
       /\ stack' = Annotate(stack, ok)
       /\ exc' = ~ok
       /\ epc' = IF ok THEN "exit_wf" ELSE "unwind"
  /\ UNCHANGED <<qi, results, output, trace_count, pulled, final_response_text,
                 nOpened, nClosed, fileWrites, written>>
  /\ UNCHANGED evalFrame

\* main: the normal exit of `with LLMObs.workflow(...)`
EvalExitWorkflow ==
  /\ epc = "exit_wf"
  /\ stack' = Pop(stack)
  /\ nClosed' = nClosed + 1
  /\ epc' = "flush"
  /\ UNCHANGED <<qi, results, output, trace_count, pulled, final_response_text,
                 exc, nOpened, fileWrites, written>>
  /\ UNCHANGED evalFrame

\* main, lines 410-427: LLMObs.flush() inside its own try/except, then the
\* record of the question is appended
EvalFlushAndAppend ==
  /\ epc = "flush"
  /\ results' = Append(results, [output |-> OutputToUse])
  /\ qi' = qi + 1
  /\ epc' = "loop"
  /\ UNCHANGED <<output, trace_count, pulled, final_response_text, exc,
                 fileWrites, written>>
  /\ UNCHANGED spanVars
  /\ UNCHANGED evalFrame

\* an exception leaves main through the open `with` blocks: each scope is
\* released, nothing catches it
EvalUnwind ==
  /\ epc = "unwind"
  /\ stack' = Pop(stack)
  /\ nClosed' = nClosed + 1
  /\ epc' = IF Pop(stack) = <<>> THEN "crashed" ELSE "unwind"
  /\ UNCHANGED <<qi, results, output, trace_count, pulled, final_response_text,
                 exc, nOpened, fileWrites, written>>
  /\ UNCHANGED evalFrame

\* main, lines 430-434: after the loop the results are written to the file
EvalWriteResults ==
  /\ epc = "loop"
  /\ qi > NumQuestions
  /\ fileWrites' = fileWrites + 1
  /\ written' = results
  /\ epc' = "done"
  /\ UNCHANGED <<qi, results, output, trace_count, pulled, final_response_text, exc>>
  /\ UNCHANGED spanVars
  /\ UNCHANGED evalFrame

EvalNext ==
  \/ EvalNextQuestion
  \/ EvalAnnotateWorkflowStart
  \/ EvalOpenRootAgent
  \/ EvalInvokeAgent
  \/ EvalStreamChunk
  \/ EvalStreamTrace
  \/ EvalStreamRaise
  \/ EvalStreamEnd
  \/ EvalAnnotateRootAgent
  \/ EvalExitRootAgent
  \/ EvalAnnotateWorkflowFinal
  \/ EvalExitWorkflow
  \/ EvalFlushAndAppend
  \/ EvalUnwind
  \/ EvalWriteResults

EvalSpec == EvalInit /\ [][EvalNext]_vars

\* ------------------------------------------- aws_agents_traces.run_query
\* the state before the loop of run_query
QueryInit ==
  /\ qi = 1
  /\ rpc = "off"
  /\ results = <<>>
  /\ successful_calls = 0
  /\ enables = 0
  /\ flushes = 0
  /\ flush_result = NoFlush
  /\ apc = "idle"
  /\ stack = <<>>
  /\ output = <<>>
  /\ trace_count = 0
  /\ pulled = 0
  /\ stream = <<>>
  /\ recording = FALSE
  /\ annotated = NotAnnotated
  /\ exc = FALSE
  /\ retval = None
  /\ tpc = "off"
  /\ cur = NoContent
  /\ texc = FALSE
  /\ nWf = 0
  /\ nAg = 0
  /\ nOpened = 0
  /\ nClosed = 0
  /\ errMarked = FALSE
  /\ invocations = 0
  /\ failedAt = "none"
  /\ fault = "none"
  /\ skipped = FALSE
  /\ prog = 0
  /\ outcomes = <<>>
  /\ epc = "off"
  /\ final_response_text = None
  /\ fileWrites = 0
  /\ written = <<>>
  /\ qpc = "loop"
  /\ trace_events = 0
  /\ agent_failed = FALSE
  /\ xpc = "off"
  /\ fixture = NoFixture
  /\ extracted = {}
  /\ passes = <<>>
  /\ call = <<>>
  /\ result = <<>>
  /\ now = 0
  /\ sessions = <<>>
  /\ delay = 3

\* what no step of run_query touches
queryFrame == <<rpc, successful_calls, apc, stack, trace_count, stream, recording,
                annotated, exc, retval, eventVars, nWf, nAg, nOpened, nClosed,
                errMarked, invocations, failedAt, outcomes, evalVars, fieldVars, utilVars, sessionVars,
                backendVars>>

\* the result of lines 469-489: the stripped completion as the answer
AnswerResult(completion, failed) ==
  [answer |-> Strip(completion), error |-> FALSE, agent_failed |-> failed]

\* the result of lines 503-523: the answer is f"Error: {str(e)}"
ErrorResult(failed) ==
  [answer |-> <<>>, error |-> TRUE, agent_failed |-> failed]

\* run_query, lines 409-415, and process_agent_response_with_trace, lines
\* 61-63: the question of the record is read and the locals are set; a record
\* without a question key raises KeyError in the try block and again in the
\* except block (line 505), which leaves run_query
QueryNextQuestion ==
  /\ qpc = "loop"
  /\ qi <= NumQuestions
  /\ \E hasQuestion \in BOOLEAN :
       qpc' = IF hasQuestion THEN "invoke" ELSE "crashed"
  /\ output' = <<>>
  /\ trace_events' = 0
  /\ pulled' = 0
  /\ agent_failed' = FALSE
  /\ UNCHANGED <<qi, results>>
  /\ UNCHANGED queryFrame

\* process_agent_response_with_trace, lines 67-107 and 135-139: invoke_agent
\* returns the event stream, or raises and `"", []` is returned
QueryInvokeAgent ==
  /\ qpc = "invoke"
  /\ \E ok \in BOOLEAN :
       /\ qpc' = IF ok THEN "stream" ELSE "record"
       /\ agent_failed' = ~ok
  /\ UNCHANGED <<qi, results, output, trace_events, pulled>>
  /\ UNCHANGED queryFrame

\* lines 115-119: a chunk is decoded and appended to completion
QueryStreamChunk ==
  /\ qpc = "stream"
  /\ pulled < MaxEvents
  /\ pulled' = pulled + 1
  /\ \E text \in ChunkTexts : output' = output \o text
  /\ UNCHANGED <<qi, results, trace_events, agent_failed, qpc>>
  /\ UNCHANGED queryFrame

\* lines 121-123: a trace is appended to trace_events
QueryStreamTrace ==
  /\ qpc = "stream"
  /\ pulled < MaxEvents
  /\ pulled' = pulled + 1
  /\ trace_events' = trace_events + 1
  /\ UNCHANGED <<qi, results, output, agent_failed, qpc>>
  /\ UNCHANGED queryFrame

\* lines 125-127: an item with neither key is printed
QueryStreamOther ==
  /\ qpc = "stream"
  /\ pulled < MaxEvents
  /\ pulled' = pulled + 1
  /\ UNCHANGED <<qi, results, output, trace_events, agent_failed, qpc>>
  /\ UNCHANGED queryFrame

\* lines 113-119 and 135-139: the event stream raises, or a chunk holds no
\* bytes key or bytes that do not decode; what was collected is dropped and
\* `"", []` is returned
QueryStreamRaise ==
  /\ qpc = "stream"
  /\ output' = <<>>
  /\ trace_events' = 0
  /\ agent_failed' = TRUE
  /\ qpc' = "record"
  /\ UNCHANGED <<qi, results, pulled>>
  /\ UNCHANGED queryFrame

\* lines 113 and 131: the event stream is exhausted
QueryStreamEnd ==
  /\ qpc = "stream"
  /\ qpc' = "record"
  /\ UNCHANGED <<qi, results, output, trace_events, pulled, agent_failed>>
  /\ UNCHANGED queryFrame

\* run_query, lines 437-493: chunks and timing are extracted (both functions
\* swallow their own errors) and the result is appended; a record without a
\* baseTruth key raises KeyError at line 473 and again at line 507
QueryAppendResult ==
  /\ qpc = "record"
  /\ \E hasBaseTruth \in BOOLEAN :
       IF hasBaseTruth
       THEN /\ results' = Append(results, AnswerResult(output, agent_failed))
            /\ qi' = qi + 1
            /\ qpc' = "loop"
       ELSE /\ qpc' = "crashed"
            /\ UNCHANGED <<qi, results>>
  /\ UNCHANGED <<output, trace_events, pulled, agent_failed>>
  /\ UNCHANGED queryFrame

\* run_query, lines 497-525: an exception of the try block that is no missing
\* key of the record (a print that fails on a closed output, for one) is
\* turned into an "Error: ..." result
QueryAppendError ==
  /\ qpc \in {"invoke", "record"}
  /\ results' = Append(results, ErrorResult(agent_failed))
  /\ qi' = qi + 1
  /\ qpc' = "loop"
  /\ UNCHANGED <<output, trace_events, pulled, agent_failed>>
  /\ UNCHANGED queryFrame

\* run_query, lines 531-551: the results are written to the file
QueryWriteResults ==
  /\ qpc = "loop"
  /\ qi > NumQuestions
  /\ qpc' = "done"
  /\ UNCHANGED <<qi, results, output, trace_events, pulled, agent_failed>>
  /\ UNCHANGED queryFrame

QueryNext ==
  \/ QueryNextQuestion
  \/ QueryInvokeAgent
  \/ QueryStreamChunk
  \/ QueryStreamTrace
  \/ QueryStreamOther
  \/ QueryStreamRaise
  \/ QueryStreamEnd
  \/ QueryAppendResult
  \/ QueryAppendError
  \/ QueryWriteResults

QuerySpec == QueryInit /\ [][QueryNext]_vars

\* ------------------------------------------------- text_processing helpers
\* Texts are sequences of characters. The JSON documents of the model are
\* the objects with no key or with one key of one letter and a value of one
\* digit, written with or without spaces, and the string literals over the
\* characters of these documents; an object is the sequence of its
\* <<key, value>> pairs.
JsonFail == [ok |-> FALSE, str |-> <<>>, obj |-> <<>>]

\* json.loads on the inside of a string literal: a bare quote ends the
\* literal early (extra data), a backslash escapes a quote or a backslash
RECURSIVE Unescape(_)
Unescape(body) ==
  IF body = <<>> THEN [ok |-> TRUE, str |-> <<>>, obj |-> <<>>]
  ELSE IF Head(body) = "\"" THEN JsonFail
  ELSE IF Head(body) = "\\"
  THEN IF Len(body) >= 2 /\ body[2] \in {"\"", "\\"}
       THEN LET rest == Unescape(SubSeq(body, 3, Len(body)))
            IN [rest EXCEPT !.str = <<body[2]>> \o @]
       ELSE JsonFail
  ELSE LET rest == Unescape(Tail(body))
       IN [rest EXCEPT !.str = <<Head(body)>> \o @]

\* json.loads on a text that starts with a double quote
LoadsString(text) ==
  IF Len(text) >= 2 /\ text[Len(text)] = "\""
  THEN Unescape(SubSeq(text, 2, Len(text) - 1))
  ELSE JsonFail

\* json.loads on a text whose first character after the spaces is `{`
LoadsObject(text) ==
  LET s1 == LStrip(Tail(LStrip(text)))
      closes(s) == s # <<>> /\ Head(s) = "}" /\ LStrip(Tail(s)) = <<>>
  IN IF closes(s1) THEN [ok |-> TRUE, str |-> <<>>, obj |-> <<>>]
     ELSE IF Len(s1) >= 3 /\ s1[1] = "\"" /\ s1[2] \in {"a", "b"} /\ s1[3] = "\""
     THEN LET s2 == LStrip(SubSeq(s1, 4, Len(s1)))
          IN IF s2 # <<>> /\ Head(s2) = ":"
             THEN LET s3 == LStrip(Tail(s2))
                  IN IF s3 # <<>> /\ Head(s3) \in {"1", "2"}
                        /\ closes(LStrip(Tail(s3)))
                     THEN [ok |-> TRUE, str |-> <<>>,
                           obj |-> << <<s1[2], Head(s3)>> >>]
                     ELSE JsonFail
             ELSE JsonFail
     ELSE JsonFail

\* json.dumps(obj, indent=2)
Dumps(obj) ==
  IF obj = <<>> THEN <<"{", "}">>
  ELSE <<"{", "\n", " ", " ", "\"", obj[1][1], "\"", ":", " ", obj[1][2], "\n", "}">>

StartsWithBrace(text) == LStrip(text) # <<>> /\ Head(LStrip(text)) = "{"

\* mutant: safe_json_parse without the removal of the outer quoting
SafeJsonParseNoUnquote(text) ==
  IF StartsWithBrace(text) /\ LoadsObject(text).ok
  THEN [dict |-> TRUE, obj |-> LoadsObject(text).obj, str |-> <<>>]
  ELSE [dict |-> FALSE, obj |-> <<>>, str |-> text]

\* text_processing.py lines 61-83, safe_json_parse: the outer quoting is
\* removed when the text starts and ends with a double quote, then a text
\* that starts with `{` is parsed; a JSONDecodeError at either step returns
\* the text as it is at that point
SafeJsonParse(text) ==
  LET quoted == text # <<>> /\ Head(text) = "\"" /\ text[Len(text)] = "\""
      inner == LoadsString(text)
      t1 == IF quoted /\ inner.ok THEN inner.str ELSE text
  IN IF quoted /\ ~inner.ok THEN [dict |-> FALSE, obj |-> <<>>, str |-> text]
     ELSE IF StartsWithBrace(t1) /\ LoadsObject(t1).ok
     THEN [dict |-> TRUE, obj |-> LoadsObject(t1).obj, str |-> <<>>]
     ELSE [dict |-> FALSE, obj |-> <<>>, str |-> t1]

\* text_processing.py lines 85-100, format_response_for_display: a dict is
\* dumped with indent 2, anything else gives back str(response_text)
FormatResponseForDisplay(response_text) ==
  LET parsed_response == SafeJsonParse(response_text)
  IN IF parsed_response.dict THEN Dumps(parsed_response.obj) ELSE response_text

\* trace_processor.py lines 229-245: what _process_action_group_output
\* annotates for the text of an ACTION_GROUP observation
ActionOutputAnnotation(response_text) ==
  [output_data |-> FormatResponseForDisplay(response_text),
   response_length |-> Len(response_text),
   response_type |-> IF StartsWithBrace(response_text) THEN "json" ELSE "text",
   has_response |-> response_text # <<>>]

\* dd_traces.py lines 244-268: the same branch of the original
\* process_trace_event; the unquoted text is assigned to response_text
\* itself, and the annotation is built from that variable
DdTracesActionOutputAnnotation(text) ==
  LET quoted == text # <<>> /\ Head(text) = "\"" /\ text[Len(text)] = "\""
      inner == LoadsString(text)
      response_text == IF quoted /\ inner.ok THEN inner.str ELSE text
      isDict == /\ ~(quoted /\ ~inner.ok)
                /\ StartsWithBrace(response_text)
                /\ LoadsObject(response_text).ok
  IN [output_data |-> IF isDict THEN Dumps(LoadsObject(response_text).obj)
                      ELSE response_text,
      response_length |-> Len(response_text),
      response_type |-> IF StartsWithBrace(response_text) THEN "json" ELSE "text",
      has_response |-> response_text # <<>>]

\* json.dumps of an object (spaced: with the default separators) and of a
\* string, which build the texts the helpers are called with
EncodeObject(obj, spaced) ==
  IF obj = <<>> THEN <<"{", "}">>
  ELSE <<"{", "\"", obj[1][1], "\"", ":">> \o (IF spaced THEN <<" ">> ELSE <<>>)
       \o <<obj[1][2], "}">>

RECURSIVE EscapeChars(_)
EscapeChars(s) ==
  IF s = <<>> THEN <<>>
  ELSE (IF Head(s) \in {"\"", "\\"} THEN <<"\\", Head(s)>> ELSE <<Head(s)>>)
       \o EscapeChars(Tail(s))

EncodeString(s) == <<"\"">> \o EscapeChars(s) \o <<"\"">>

\* ------------------------------------- one _process_* method on one record
\* a _process_* method of TraceProcessor is called on a record of its kind
FieldInit ==
  /\ qi = 1
  /\ rpc = "off"
  /\ results = <<>>
  /\ successful_calls = 0
  /\ enables = 0
  /\ flushes = 0
  /\ flush_result = NoFlush
  /\ apc = "idle"
  /\ stack = <<>>
  /\ output = <<>>
  /\ trace_count = 0
  /\ pulled = 0
  /\ stream = <<>>
  /\ recording = FALSE
  /\ annotated = NotAnnotated
  /\ exc = FALSE
  /\ retval = None
  /\ tpc = "off"
  /\ cur = NoContent
  /\ texc = FALSE
  /\ nWf = 0
  /\ nAg = 0
  /\ nOpened = 0
  /\ nClosed = 0
  /\ errMarked = FALSE
  /\ invocations = 0
  /\ failedAt = "none"
  /\ fault = "none"
  /\ skipped = FALSE
  /\ prog = 0
  /\ outcomes = <<>>
  /\ epc = "off"
  /\ final_response_text = None
  /\ fileWrites = 0
  /\ written = <<>>
  /\ qpc = "off"
  /\ trace_events = 0
  /\ agent_failed = FALSE
  /\ xpc = "read"
  /\ fixture \in Fixtures
  /\ extracted = {}
  /\ passes = <<>>
  /\ call = <<>>
  /\ result = <<>>
  /\ now = 0
  /\ sessions = <<>>
  /\ delay = 3

fieldFrame == <<runnerVars, evalVars, recording, queryVars, backendVars, utilVars, sessionVars,
                passes,
                walkerVars, tpc, cur, fault, skipped, prog>>

\* mutant: the fields are read with `.pop(key, default)`, which takes them
\* out of the event
ReadFieldsPopping ==
  /\ xpc = "read"
  /\ LET vals == Values(fixture, "pre")
     IN IF Raises(vals)
        THEN xpc' = "raised" /\ texc' = TRUE /\ extracted' = extracted
        ELSE xpc' = "with" /\ texc' = FALSE /\ extracted' = vals
  /\ fixture' = IF fixture.damage = "none"
                THEN [fixture EXCEPT
                        !.field = (CHOOSE f \in Fields(fixture.kind) : TRUE),
                        !.damage = "absent"]
                ELSE fixture
  /\ UNCHANGED <<spanVars, fieldFrame>>

\* the `.get` chains before the `with` (e.g. lines 51-57): a chain that
\* raises leaves the method before any span is opened
ReadFields ==
  /\ xpc = "read"
  /\ LET vals == Values(fixture, "pre")
     IN IF Raises(vals)
        THEN xpc' = "raised" /\ texc' = TRUE /\ extracted' = extracted
        ELSE xpc' = "with" /\ texc' = FALSE /\ extracted' = vals
  /\ UNCHANGED <<fixture, spanVars, fieldFrame>>

\* the `with self.llm_obs.<category>(...)` of the method (e.g. line 59)
EnterRecordSpan ==
  /\ xpc = "with"
  /\ stack' = Push(stack, nOpened + 1, fixture.kind, Category(fixture.kind))
  /\ nOpened' = nOpened + 1
  /\ xpc' = "annotate"
  /\ UNCHANGED <<fixture, extracted, texc, nClosed, fieldFrame>>

\* the annotate call of the method with the `.get` chains among its
\* arguments (e.g. lines 60-74) and the safe_print after it
AnnotateFields ==
  /\ xpc = "annotate"
  /\ LET vals == Values(fixture, "in")
     IN IF Raises(vals)
        THEN texc' = TRUE /\ stack' = stack /\ extracted' = extracted
        ELSE /\ texc' = FALSE
             /\ stack' = Annotate(stack, TRUE)
             /\ extracted' = extracted \cup vals
  /\ xpc' = "exit"
  /\ UNCHANGED <<fixture, nOpened, nClosed, fieldFrame>>

\* the exit of the `with` of the method, by its end or by an exception
ExitRecordSpan ==
  /\ xpc = "exit"
  /\ stack' = Pop(stack)
  /\ nClosed' = nClosed + 1
  /\ xpc' = IF texc THEN "raised" ELSE "returned"
  /\ UNCHANGED <<fixture, extracted, texc, nOpened, fieldFrame>>

\* lines 42-44: the except of process_trace_event logs what the method raised
FieldErrorCaught ==
  /\ xpc = "raised"
  /\ xpc' = "caught"
  /\ texc' = FALSE
  /\ UNCHANGED <<fixture, extracted, spanVars, fieldFrame>>

\* what a finished call of the method did: the values it read and annotated,
\* how many spans it opened, and whether it returned or its exception was
\* caught
PassRecord == [values |-> extracted, spans |-> nOpened, how |-> xpc]

\* process_trace_event is called again on the same event with the same
\* session identifier (the processor holds nothing but llm_obs, line 18)
ProcessAgain ==
  /\ xpc \in {"returned", "caught"}
  /\ passes = <<>>
  /\ passes' = <<PassRecord>>
  /\ xpc' = "read"
  /\ extracted' = {}
  /\ nOpened' = 0
  /\ nClosed' = 0
  /\ UNCHANGED <<fixture, stack, texc, runnerVars, evalVars, recording, queryVars,
                 backendVars, utilVars, sessionVars, walkerVars, tpc, cur, fault, skipped, prog>>

FieldNext ==
  \/ ReadFields
  \/ EnterRecordSpan
  \/ AnnotateFields
  \/ ExitRecordSpan
  \/ FieldErrorCaught
  \/ ProcessAgain

FieldSpec == FieldInit /\ [][FieldNext]_vars


\* ------------------------------------------- one call of a helper function
\* The texts format_response_for_display is called with, each with what it
\* was built from: an object as text, an object as text quoted once, or
\* anything else (plain text, text quoted twice, documents that do not parse).
FormatCalls ==
  LET objs == {<<>>, << <<"a", "1">> >>, << <<"b", "2">> >>}
      docs == {[text |-> EncodeObject(o, sp), obj |-> o] : o \in objs, sp \in BOOLEAN}
      plain == {<<>>, <<"a">>, <<"a", " ", "b">>, <<"1">>, <<" ">>}
      broken == {<<"{">>, <<"{", "a", "}">>, <<"{", "\"", "a", "\"", ":", "1">>,
                 <<"{", "}", "}">>, <<"{", "\"", "a", "\"", "1", "}">>}
      misquoted == {<<"\"">>, <<"\"", "a", "\"", "a", "\"">>, <<"\"", "\\", "\"">>,
                    <<"\"", "\\", "a", "\"">>,
                    <<"\"", "{", "\"", "a", "\"", ":", "1", "}", "\"">>}
      Call(t, k, o) == [fn |-> "format", args |-> <<t>>, kind |-> k, obj |-> o]
  IN {Call(d.text, "object", d.obj) : d \in docs}
     \cup {Call(<<" ">> \o d.text \o <<" ">>, "object", d.obj) : d \in docs}
     \cup {Call(EncodeString(d.text), "quoted_object", d.obj) : d \in docs}
     \cup {Call(EncodeString(EncodeString(d.text)), "other", <<>>) : d \in docs}
     \cup {Call(<<" ">> \o EncodeString(d.text), "other", <<>>) : d \in docs}
     \cup {Call(t, "other", <<>>) : t \in plain \cup broken \cup misquoted}
     \cup {Call(EncodeString(t), "other", <<>>) : t \in plain \cup broken}

\* Scores are counted in hundredths of a percent, the precision sim rounds
\* to: 7999 is 79.99. grade is called with the band limits, their neighbours
\* and values inside and outside the range of sim.
GradeCalls ==
  {[fn |-> "grade", args |-> <<b * 100 + d>>, kind |-> "score", obj |-> <<>>] :
     b \in {0, 20, 40, 50, 60, 70, 80, 90, 100}, d \in {0 - 1, 0, 1}}

\* mutant: the limits are exclusive
GradeExclusive(s) ==
  IF s > 80 * 100 THEN "excellent"
  ELSE IF s > 60 * 100 THEN "good"
  ELSE IF s > 40 * 100 THEN "fair"
  ELSE "poor"

\* mutant: the band between 60 and 80 is missing
GradeWithoutGood(s) ==
  IF s >= 80 * 100 THEN "excellent"
  ELSE IF s >= 40 * 100 THEN "fair"
  ELSE "poor"

\* dd_eval.py line 64, grade
Grade(s) ==
  IF s >= 80 * 100 THEN "excellent"
  ELSE IF s >= 60 * 100 THEN "good"
  ELSE IF s >= 40 * 100 THEN "fair"
  ELSE "poor"

\* re.sub(r"\s+", " ", s.lower()): every letter in lower case, every run of
\* blanks as one blank
RECURSIVE Collapse(_)
Collapse(s) ==
  IF s = <<>> THEN <<>>
  ELSE LET c == CASE Head(s) = "A" -> "a" [] Head(s) = "B" -> "b" [] OTHER -> Head(s)
           rest == Collapse(Tail(s))
       IN IF c = " " /\ rest # <<>> /\ Head(rest) = " " THEN rest ELSE <<c>> \o rest

\* the number of matching characters difflib.SequenceMatcher(None, a, b)
\* counts: the longest common block (the earliest in a, then the earliest in
\* b, among the longest), then the same to its left and to its right
RECURSIVE Matches(_, _)
Matches(a, b) ==
  LET blocks == {t \in (1..Len(a)) \X (1..Len(b)) \X (1..Len(a)) :
                   /\ t[1] + t[3] - 1 <= Len(a)
                   /\ t[2] + t[3] - 1 <= Len(b)
                   /\ SubSeq(a, t[1], t[1] + t[3] - 1) = SubSeq(b, t[2], t[2] + t[3] - 1)}
  IN IF blocks = {} THEN 0
     ELSE LET m == CHOOSE t \in blocks : \A u \in blocks :
                     \/ u[3] < t[3]
                     \/ (u[3] = t[3] /\ t[1] < u[1])
                     \/ (u[3] = t[3] /\ t[1] = u[1] /\ t[2] <= u[2])
          IN m[3] + Matches(SubSeq(a, 1, m[1] - 1), SubSeq(b, 1, m[2] - 1))
                  + Matches(SubSeq(a, m[1] + m[3], Len(a)),
                            SubSeq(b, m[2] + m[3], Len(b)))

\* mutant: sim without the collapsing of the runs of blanks and the lower case
SimRaw(a, b) ==
  IF a = <<>> \/ b = <<>> THEN 0
  ELSE LET x == Strip(a)
           y == Strip(b)
           T == Len(x) + Len(y)
       IN IF T = 0 THEN 100 * 100
          ELSE (2 * 2 * Matches(x, y) * 100 * 100 + T) \div (2 * T)

\* dd_eval.py lines 59-62, sim: 0 when an argument is empty, otherwise the
\* ratio 2*M/T of the normalised and stripped texts as a percentage rounded
\* to two decimals (counted in hundredths); the ratio of two empty texts is 1
Sim(a, b) ==
  IF a = <<>> \/ b = <<>> THEN 0
  ELSE LET x == Strip(Collapse(a))
           y == Strip(Collapse(b))
           T == Len(x) + Len(y)
       IN IF T = 0 THEN 100 * 100
          ELSE (2 * 2 * Matches(x, y) * 100 * 100 + T) \div (2 * T)

\* the answers and expected answers sim is called with
SimCalls ==
  LET chars == {"a", "A", "b", " "}
      texts == {<<>>} \cup {<<c>> : c \in chars} \cup {<<c, d>> : c, d \in chars}
               \cup {<<"a", " ", "b">>, <<"a", " ", " ", " ", "b">>,
                     <<"A", " ", " ", "B">>, <<" ", "a", "b", " ">>,
                     <<"a", "b", "a">>, <<"b", "a", "b", "a">>}
  IN {[fn |-> "sim", args |-> <<a, b>>, kind |-> "texts", obj |-> <<>>] :
        a \in texts, b \in texts}

UtilInit ==
  /\ qi = 1
  /\ rpc = "off"
  /\ results = <<>>
  /\ successful_calls = 0
  /\ enables = 0
  /\ flushes = 0
  /\ flush_result = NoFlush
  /\ apc = "idle"
  /\ stack = <<>>
  /\ output = <<>>
  /\ trace_count = 0
  /\ pulled = 0
  /\ stream = <<>>
  /\ recording = FALSE
  /\ annotated = NotAnnotated
  /\ exc = FALSE
  /\ retval = None
  /\ tpc = "off"
  /\ cur = NoContent
  /\ texc = FALSE
  /\ nWf = 0
  /\ nAg = 0
  /\ nOpened = 0
  /\ nClosed = 0
  /\ errMarked = FALSE
  /\ invocations = 0
  /\ failedAt = "none"
  /\ fault = "none"
  /\ skipped = FALSE
  /\ prog = 0
  /\ outcomes = <<>>
  /\ epc = "off"
  /\ final_response_text = None
  /\ fileWrites = 0
  /\ written = <<>>
  /\ qpc = "off"
  /\ trace_events = 0
  /\ agent_failed = FALSE
  /\ xpc = "off"
  /\ fixture = NoFixture
  /\ extracted = {}
  /\ passes = <<>>
  /\ call \in FormatCalls \cup GradeCalls \cup SimCalls
  /\ result = [done |-> FALSE, value |-> <<>>]
  /\ now = 0
  /\ sessions = <<>>
  /\ delay = 3

utilFrame == <<runnerVars, evalVars, recording, queryVars, backendVars, fieldVars,
               sessionVars,
               walkerVars, eventVars, spanVars>>

\* trace_processor.py line 232: formatted_response =
\* format_response_for_display(response_text)
CallFormat ==
  /\ call.fn = "format"
  /\ ~result.done
  /\ result' = [done |-> TRUE, value |-> FormatResponseForDisplay(call.args[1])]
  /\ UNCHANGED <<call, utilFrame>>

\* dd_eval.py lines 309-312: grade(sc)
CallGrade ==
  /\ call.fn = "grade"
  /\ ~result.done
  /\ result' = [done |-> TRUE, value |-> Grade(call.args[1])]
  /\ UNCHANGED <<call, utilFrame>>

\* dd_eval.py line 308: sc = sim(answer, expect)
CallSim ==
  /\ call.fn = "sim"
  /\ ~result.done
  /\ result' = [done |-> TRUE, value |-> Sim(call.args[1], call.args[2])]
  /\ UNCHANGED <<call, utilFrame>>

UtilNext ==
  \/ CallFormat
  \/ CallGrade
  \/ CallSim

UtilSpec == UtilInit /\ [][UtilNext]_vars

\* ---------------------------------------------------------------- claims
InCall == apc \notin {"idle", "start"}
CallEnded == apc \in {"returned", "raised"}
InAgentScope ==
  apc \in {"invoke", "stream", "trace", "rescan", "agent_annotate", "exit_agent"}

\* C1 (as stated): every call of ask_agent_with_traces opens exactly one root
\* workflow span and exactly one root agent span.
C1_ExactlyOneRootAgent ==
  CallEnded => (nWf = 1 /\ nAg = 1)

\* C1 (amended): every call opens exactly one root workflow span and at most
\* one root agent span, whose parent is the workflow span; the agent span is
\* open whenever the agent is invoked or its stream is consumed and was opened
\* on every call that completes; every per-record span is opened with the root
\* agent span as its parent, under the workflow span.
C1_SpanNesting ==
  /\ InCall => nWf = 1
  /\ nAg <= 1
  /\ InAgentScope => (nAg = 1 /\ Len(stack) >= 2)
  /\ (CallEnded /\ Ended = "completed") => nAg = 1
  /\ Len(stack) <= 3
  /\ \A i \in 1..Len(stack) :
       /\ i = 1 => (stack[i].kind = "workflow" /\ stack[i].parent = "none")
       /\ i = 2 => (stack[i].kind = "root_agent" /\ stack[i].parent = "workflow")
       /\ i = 3 => (stack[i].kind \in RecordKinds /\ stack[i].parent = "root_agent")

\* C1 witness: a per-record span is open under the root agent span
C1_Witness ==
  /\ Len(stack) = 3
  /\ tpc = "span"

\* C2: spans are closed innermost first, each opened span is closed once, and
\* no span is open when ask_agent_with_traces has returned or raised, on the
\* completion path, on the failure path and after an annotate call raised.
C2_ScopedRelease ==
  /\ nOpened = nClosed + Len(stack)
  /\ Len(stack) <= 3
  /\ \A i \in 1..Len(stack) :
       /\ i = 1 => stack[i].kind = "workflow"
       /\ i = 2 => stack[i].kind = "root_agent"
       /\ i = 3 => stack[i].kind \in RecordKinds
       /\ i > 1 => stack[i].id > stack[i - 1].id
  /\ tpc \in {"off", "begin", "caught", "end"} => Len(stack) <= 2
  /\ apc \in {"idle", "returned", "raised"} => stack = <<>>

\* C2 witness: the call has returned on the failure path after the annotate
\* call of a per-record span raised, and nothing is open
C2_Witness ==
  /\ apc = "returned"
  /\ errMarked
  /\ nOpened >= 3
  /\ stack = <<>>

\* C3: when process_trace_event is done with an event, no stage key or
\* sub-kind key that the event holds was left without being looked at.
C3_EveryPresentKeyProcessed ==
  tpc = "end" => ~skipped

\* C4: no exception leaves the except block of ask_agent_with_traces: the
\* failure path attaches the error marker and returns None.
C4_FailureNeverPropagates ==
  /\ apc # "raised"
  /\ (apc = "exit_wf" /\ Ended # "completed") => (~exc /\ errMarked /\ retval = None)

\* C5: on the completion path the root agent span is annotated right before
\* it closes and the root workflow span is annotated after the agent span
\* has closed, before it closes itself.
C5_CompletionAnnotatesBothRoots ==
  /\ (apc = "exit_agent" /\ ~exc) => Top(stack).lastOp = "annotated"
  /\ (apc = "exit_wf" /\ ~exc /\ ~errMarked) => Top(stack).lastOp = "annotated"

\* C6: run_test_suite appends one result per question in input order also
\* when the walker fails or raises: such a question gets success false and no
\* response, the loop goes on to the next question, and the run returns
\* NumQuestions results.
C6_BatchContinues ==
  /\ Len(results) = qi - 1
  /\ Len(outcomes) = Len(results)
  /\ \A i \in 1..Len(results) :
       /\ outcomes[i] \in {"failed", "raised"} =>
            (~results[i].success /\ results[i].response = None)
       /\ results[i].success <=> results[i].response # None
  /\ CallEnded => rpc = "test"
  /\ rpc = "done" => Len(results) = NumQuestions

\* C6 witness: a question whose walker failed is followed by one that succeeded
C6_Witness ==
  /\ rpc = "done"
  /\ \E i \in 1..(Len(results) - 1) :
       /\ outcomes[i] # "completed"
       /\ ~results[i].success
       /\ results[i + 1].success

\* C8: when a stage of an event fails on malformed content, the stage keys
\* after it in the same event are still processed.
C8_MalformedStageRecoveredLocally ==
  (tpc = "end" /\ fault = "malformed") => ~skipped

\* C9: an invocationInput or observation with an unrecognized discriminator
\* opens no span and raises nothing, and processing goes on with the next
\* stage of the same event.
C9_UnknownDiscriminatorIgnored ==
  /\ (/\ cur.slot = "invocationInput"
      /\ cur.state = "map"
      /\ cur.type \notin {"ACTION_GROUP", "KNOWLEDGE_BASE", "AGENT_COLLABORATOR"})
       => (tpc = "observation" /\ Len(stack) = 2 /\ fault = "none" /\ ~texc)
  /\ (/\ cur.slot = "observation"
      /\ cur.state = "map"
      /\ cur.type \notin {"ACTION_GROUP", "KNOWLEDGE_BASE", "AGENT_COLLABORATOR",
                           "FINISH", "REPROMPT"})
       => (tpc = "postProcessingTrace" /\ Len(stack) = 2 /\ fault = "none" /\ ~texc)

\* C9 witness: an invocationInput of unknown type was read
C9_Witness ==
  /\ cur.slot = "invocationInput"
  /\ cur.type = "UNKNOWN_TYPE"
  /\ tpc = "observation"

\* C10: at the exit of its `with` block every per-record span has had the
\* annotate operation applied to it exactly once.
C10_AnnotatedBeforeClose ==
  tpc = "exit" => Top(stack).calls = 1

\* C7: dd_eval.main ends having written the results file exactly once, with
\* one record per question, whatever fails while a question is processed.
C7_ResultsFileAlwaysWritten ==
  epc \in {"done", "crashed"} =>
    (fileWrites = 1 /\ Len(written) = NumQuestions)

\* ------------------------------------------------------------------- C11
\* the decoded texts of the content fragments of a stream, concatenated in
\* stream order
RECURSIVE ChunkConcat(_)
ChunkConcat(items) ==
  IF items = <<>> THEN <<>>
  ELSE (IF Head(items).key \in {"chunk", "both"} THEN Head(items).text ELSE <<>>)
         \o ChunkConcat(Tail(items))

\* the number of items of a stream that hold a trace record
RECURSIVE TraceRecords(_)
TraceRecords(items) ==
  IF items = <<>> THEN 0
  ELSE (IF Head(items).key \in {"trace", "both"} THEN 1 ELSE 0)
         + TraceRecords(Tail(items))

\* every item is a content fragment or a trace record or neither, never both
OneKeyPerItem(items) == \A i \in 1..Len(items) : items[i].key # "both"

\* C11: for a stream whose items are content fragments or trace records, the
\* answer buffer is at every moment the concatenation, in stream order, of the
\* decoded fragments pulled so far and the counter is the number of trace
\* records pulled so far; on the completion path the root agent span is
\* annotated with exactly that answer and that count, and the stripped answer
\* is returned.
C11_AnswerIsConcatenation ==
  OneKeyPerItem(stream) =>
    /\ InCall => /\ output = ChunkConcat(stream)
                 /\ trace_count = TraceRecords(stream)
    /\ apc \in {"stream", "trace"} => pulled = Len(stream)
    /\ annotated.done => /\ annotated.content = ChunkConcat(stream)
                         /\ annotated.total_trace_events = TraceRecords(stream)
    /\ (apc = "returned" /\ ~errMarked) =>
         /\ annotated.done
         /\ retval = ReturnValue(ChunkConcat(stream))

\* C11 witness: the call completed on a stream of a trace record followed by
\* a content fragment
C11_Witness ==
  /\ apc = "returned"
  /\ ~errMarked
  /\ Len(stream) = 2
  /\ stream[1].key = "trace"
  /\ stream[2] = Item("chunk", <<"a">>)
  /\ annotated.content = <<"a">>
  /\ annotated.total_trace_events = 1

\* ------------------------------------------------------------------- C12
\* C12: per-record spans are siblings produced one at a time, in the order in
\* which the walker pulls and the processor reads: a per-record span is open
\* only between the entry and the exit of the `with` block of the key read
\* last and is the span of that key, every span opened before it is closed,
\* no item is pulled while an event is being processed, and while the spans
\* follow the reference stream their number is the number of its records
\* read so far.
C12_SequentialSiblings ==
  /\ Len(stack) <= 3
  /\ tpc \in {"span", "exit"} <=> Len(stack) = 3
  /\ Len(stack) = 3 =>
       /\ Top(stack).kind = KindOf(cur.slot, cur.type)
       /\ Top(stack).id = nOpened
       /\ nClosed = nOpened - 3
  /\ apc = "stream" => (tpc = "off" /\ Len(stack) = 2 /\ nClosed = nOpened - 2)
  /\ tpc # "off" => apc = "trace"
  /\ (InCall /\ prog # Off) =>
       /\ nOpened = nWf + nAg + ((prog + 1) \div 2)
       /\ prog % 2 = 1 => (Len(stack) = 3 /\ Top(stack).kind = Scenario[(prog + 1) \div 2])
       /\ prog % 2 = 0 => Len(stack) <= 2

\* C12 witness: the call has returned after exactly the four spans of the
\* reference stream were opened and closed in its order
C12_Witness ==
  /\ apc = "returned"
  /\ prog = 2 * Len(Scenario)
  /\ nOpened = 6
  /\ nClosed = 6

\* ------------------------------------------------------------------- C13
\* the produced answer is a non-empty string
NonEmptyAnswer(response) == response # None /\ response.val # <<>>

\* C13: a result is a success exactly when its response is a non-empty
\* string, and successful_calls is the number of such results.
C13_SuccessIffNonEmptyAnswer ==
  /\ \A i \in 1..Len(results) :
       results[i].success <=> NonEmptyAnswer(results[i].response)
  /\ successful_calls =
       Cardinality({i \in 1..Len(results) : NonEmptyAnswer(results[i].response)})

\* ------------------------------------------------------------------- C14
\* C14: when the event source raises mid-stream, the agent was invoked once
\* for the question and is not invoked again, the root agent span is not
\* annotated with the partial answer, the call returns None (or raises) even
\* when fragments were appended before, and the runner records the question
\* as failed with no response and goes on to the next question.
C14_StreamFailureDiscardsPartial ==
  /\ [](invocations <= 1)
  /\ [](failedAt = "stream" =>
          /\ invocations = 1
          /\ ~annotated.done
          /\ apc \in {"exit_agent", "except", "exit_wf", "returned", "raised"}
          /\ apc = "returned" => retval = None)
  /\ [][(failedAt = "stream" /\ rpc = "test" /\ rpc' # "test") =>
          /\ rpc' = "loop"
          /\ qi' = qi + 1
          /\ results' = Append(results, [success |-> FALSE, response |-> None])
          /\ successful_calls' = successful_calls]_vars

\* C14 witness: the call has ended after the stream raised with a fragment
\* already in the buffer, and another question follows
C14_Witness ==
  /\ failedAt = "stream"
  /\ output # <<>>
  /\ CallEnded
  /\ qi < NumQuestions

\* ------------------------------------------------------------------- C15
\* C15: in run_query every question whose agent invocation or event stream
\* raised has a result whose answer is of the form "Error: <message>", and
\* the results are in question order, one per question processed.
C15_AgentFailureMarkedError ==
  /\ Len(results) = qi - 1
  /\ \A i \in 1..Len(results) : results[i].agent_failed => results[i].error

\* ------------------------------------------------------------------- C16
\* C16: in the flow of main and run_evaluation the backend is enabled once,
\* before the first question is processed, it is not flushed before or
\* between the questions, and when the flow ends after the batch it was
\* flushed exactly once, after the last question was processed.
C16_EnableOnceFlushOnce ==
  /\ enables <= 1
  /\ rpc # "new" => enables = 1
  /\ InCall => rpc = "test"
  /\ rpc \in {"new", "loop", "test", "done", "aborted"} =>
       (flushes = 0 /\ ~flush_result.called)
  /\ rpc \in {"flushed", "exit"} =>
       /\ flushes = 1
       /\ flush_result.called
       /\ Len(results) = NumQuestions
       /\ qi = NumQuestions + 1

\* C16 witness: the flow has ended after the batch, with one enable and one
\* flush
C16_Witness ==
  /\ rpc = "exit"
  /\ enables = 1
  /\ flushes = 1
  /\ Len(results) = NumQuestions

\* ------------------------------------------------------------------- C17
\* C17: a flush that fails is reported as False and is not raised to the
\* caller, and the flush leaves the collected results as they were:
\* get_results_summary gives the same summary before and after it.
C17_FlushFailureIsFalse ==
  /\ [](flush_result.raised =>
          /\ ~flush_result.returned
          /\ rpc \in {"flushed", "exit"})
  /\ [](flush_result.called => (flush_result.returned <=> ~flush_result.raised))
  /\ [][flushes' # flushes =>
          /\ rpc' = "flushed"
          /\ results' = results
          /\ ResultsSummary(results') = ResultsSummary(results)
          /\ ResultsSummary(results).total_tests = NumQuestions]_vars

\* C17 witness: the flush failed and the flow went on to its summary
C17_Witness ==
  /\ rpc = "exit"
  /\ flush_result.raised
  /\ ~flush_result.returned
  /\ ResultsSummary(results).total_tests = NumQuestions

\* the two terminal states of the walker: COMPLETED is the return of line 111
\* after the root agent span was annotated, FAILED is the return of None of
\* line 128 after the error marker was attached
Completed == apc = "returned" /\ failedAt = "none" /\ annotated.done
Failed == apc = "returned" /\ errMarked /\ retval = None

\* C18: a call of ask_agent_with_traces ends in exactly one of COMPLETED and
\* FAILED: the two are never held together, no step leaves either of them,
\* and on every finite event source the call eventually reaches one of them.
C18_ReachesOneTerminalState ==
  /\ [](~(Completed /\ Failed))
  /\ [][(Completed => Completed') /\ (Failed => Failed')]_vars
  /\ <>(Completed \/ Failed)

\* the table of the claim, one row per record kind
CategoryTable ==
  [k \in RecordKinds |->
     IF k \in {"preprocessing", "postprocessing", "guardrail", "failure"}
     THEN "task"
     ELSE IF k \in {"rationale", "collaborator_input", "collaborator_output",
                    "reprompt"}
     THEN "agent"
     ELSE IF k \in {"action_input", "action_output"} THEN "tool"
     ELSE IF k \in {"kb_input", "kb_output"} THEN "retrieval"
     ELSE "llm"]

RecordSpans == {i \in 1..Len(stack) : stack[i].kind \in RecordKinds}

\* C19: the category of every span opened for a record is the one the fixed
\* table gives for the kind of the record, whatever the shape of the record
\* and whatever came before it in the stream.
C19_CategoryByKind ==
  \A i \in RecordSpans : stack[i].cat = CategoryTable[stack[i].kind]

\* C19 witness: the span of a final-response record is open as an
\* llm-generation span, after an earlier record of the call was processed.
C19_Witness ==
  /\ tpc # "off"
  /\ trace_count >= 2
  /\ Top(stack).kind = "final_response"
  /\ Top(stack).cat = "llm"
  /\ Top(stack).lastOp = "annotated"

\* the values a `.get` of the methods falls back to
GetDefaults == {"", "[]", "{}", "True", "unknown"}

\* the reads of the record that go through the removed field
Through(fx) == {r \in Reads(fx.kind) : fx.field \in Prefixes(r.path)}

\* the span of the record was opened and annotated and is about to close,
\* and every value read through the removed field is one of `defaults`
\* while every other value is the one the record holds
AnnotatedWithDefaults(defaults) ==
  /\ ~texc
  /\ nOpened = 1
  /\ Top(stack).kind = fixture.kind
  /\ Top(stack).lastOp = "annotated"
  /\ \A r \in Evaluated(fixture, "pre") \cup Evaluated(fixture, "in") :
       \E v \in extracted :
         /\ v[1] = r.name
         /\ IF r \in Through(fixture)
            THEN v[2] = r.default /\ v[2] \in defaults
            ELSE v[2] \notin GetDefaults

\* C20 (as stated): removing one field of a record never makes its method
\* raise; the span of the kind is opened and annotated, and the missing value
\* is replaced by an empty string, an empty list or True.
C20_MissingFieldDefaulted ==
  fixture.damage = "absent" =>
    /\ xpc \notin {"raised", "caught"}
    /\ xpc = "exit" => AnnotatedWithDefaults({"", "[]", "True"})

\* C20 (amended): removing one field of a record never makes its method
\* raise; the span of the kind is opened and annotated, and the missing value
\* is replaced by the default of its `.get`: the empty string, the empty
\* list, the empty mapping (usage), True (isValid) or "unknown" (agentId,
\* agentName).
C20_MissingFieldGetDefault ==
  fixture.damage = "absent" =>
    /\ xpc \notin {"raised", "caught"}
    /\ xpc = "exit" => AnnotatedWithDefaults(GetDefaults)

\* C20 witness: the preprocessing record without isValid was annotated with
\* is_valid True and the span is about to close.
C20_Witness ==
  /\ xpc = "exit"
  /\ fixture = [kind |-> "preprocessing",
                field |-> <<"modelInvocationOutput", "parsedResponse", "isValid">>,
                damage |-> "absent"]
  /\ <<"is_valid", "True">> \in extracted
  /\ <<"rationale", "text">> \in extracted
  /\ Top(stack).cat = "task"
  /\ Top(stack).lastOp = "annotated"

\* C21: format_response_for_display gives the object dumped with indent 2
\* when the text is an object or an object quoted once, and the text it was
\* given in every other case; the doubly encoded "{\"a\":1}" gives the
\* formatted object with key a and value 1.
C21_FormatUnquotesOnce ==
  (call.fn = "format" /\ result.done) =>
    /\ call.kind \in {"object", "quoted_object"} => result.value = Dumps(call.obj)
    /\ call.kind = "other" => result.value = call.args[1]
    /\ call.args[1] = <<"\"", "{", "\\", "\"", "a", "\\", "\"", ":", "1", "}", "\"">>
         => result.value =
              <<"{", "\n", " ", " ", "\"", "a", "\"", ":", " ", "1", "\n", "}">>

\* C21 witness: the call on the doubly encoded "{\"a\":1}" has returned the
\* formatted object.
C21_Witness ==
  /\ call.fn = "format"
  /\ result.done
  /\ call.args[1] = <<"\"", "{", "\\", "\"", "a", "\\", "\"", ":", "1", "}", "\"">>
  /\ result.value = Dumps(<< <<"a", "1">> >>)

C23_GradeBands ==
  (call.fn = "grade" /\ result.done) =>
    LET s == call.args[1]
        rank == [b \in {"poor", "fair", "good", "excellent"} |->
                   CASE b = "poor" -> 0 [] b = "fair" -> 1 [] b = "good" -> 2
                     [] b = "excellent" -> 3]
    IN /\ result.value \in DOMAIN rank
       /\ result.value = "excellent" <=> s >= 8000
       /\ result.value = "good" <=> (6000 <= s /\ s < 8000)
       /\ result.value = "fair" <=> (4000 <= s /\ s < 6000)
       /\ result.value = "poor" <=> s < 4000
       /\ \A c \in GradeCalls :
            c.args[1] <= s => rank[Grade(c.args[1])] <= rank[result.value]

\* C23 witness: grade(60.00) has returned "good".
C23_Witness ==
  /\ call.fn = "grade"
  /\ call.args = <<6000>>
  /\ result.done
  /\ result.value = "good"

\* C24 (as stated): grade(79.99) is "fair" and grade(80.0) is "excellent".
C24_Grade7999IsFair ==
  (call.fn = "grade" /\ result.done) =>
    /\ call.args = <<7999>> => result.value = "fair"
    /\ call.args = <<8000>> => result.value = "excellent"

\* C24 (amended): grade(79.99) is "good" and grade(80.0) is "excellent".
C24_Grade7999IsGood ==
  (call.fn = "grade" /\ result.done) =>
    /\ call.args = <<7999>> => result.value = "good"
    /\ call.args = <<8000>> => result.value = "excellent"

\* C24 witness: grade(79.99) has returned "good".
C24_Witness ==
  /\ call.fn = "grade"
  /\ call.args = <<7999>>
  /\ result.done
  /\ result.value = "good"

\* C25: sim lies between 0 and 100, is 0 when an argument is empty, and is
\* 100 when the arguments are equal after lower-casing and collapsing the
\* runs of blanks.
C25_SimRange ==
  (call.fn = "sim" /\ result.done) =>
    /\ 0 <= result.value /\ result.value <= 10000
    /\ (call.args[1] = <<>> \/ call.args[2] = <<>>) => result.value = 0
    /\ (call.args[1] # <<>> /\ Collapse(call.args[1]) = Collapse(call.args[2]))
         => result.value = 10000

\* C25 witness: sim("a b", "A   b") has returned 100.
C25_Witness ==
  /\ call.fn = "sim"
  /\ call.args = << <<"a", " ", "b">>, <<"a", " ", " ", " ", "b">> >>
  /\ result.done
  /\ result.value = 10000

\* C26: no question record makes run_test_suite stop: from the head of the
\* loop the run goes on to the test of the record, and it ends with one
\* result per record.
C26_BadRecordNeverAborts ==
  /\ [][(rpc = "loop" /\ qi <= NumQuestions) => rpc' # "aborted"]_vars
  /\ [](rpc \in {"done", "flushed", "exit"} => Len(results) = NumQuestions)

\* C27: for the text of an ACTION_GROUP observation the refactored
\* TraceProcessor and the original dd_traces.process_trace_event annotate the
\* same output, response_length, response_type and has_response.
C27_RefactorEquivalent ==
  (call.fn = "format" /\ result.done) =>
    /\ ActionOutputAnnotation(call.args[1]).output_data = result.value
    /\ ActionOutputAnnotation(call.args[1])
         = DdTracesActionOutputAnnotation(call.args[1])

\* C28: within one run no two calls of ask_agent_with_traces get the same
\* session identifier, whatever the delay between the questions.
C28_SessionIdsDistinct ==
  \A i, j \in 1..Len(sessions) : i # j => sessions[i] # sessions[j]

\* C29: ask_agent_with_traces pulls every item of the event source exactly
\* once: when the call has gone past the loop, the number of pulls is the
\* number of items the source delivered.
C29_SinglePass ==
  (recording /\ apc \in {"agent_annotate", "exit_agent", "exit_wf", "returned"}
   /\ failedAt = "none")
    => pulled = Len(stream)

\* C30: every item of the event source that holds a trace key is counted and
\* processed, also when it holds a chunk key as well, and the text of every
\* chunk key is in the answer; an item with neither key changes nothing.
C30_EveryTraceKeyRouted ==
  (recording /\ apc = "stream") =>
    /\ trace_count
         = Cardinality({i \in 1..Len(stream) : stream[i].key \in {"trace", "both"}})
    /\ output = ChunkConcat(stream)

====
